---- MODULE Spec2Model ----
(***************************************************************************)
(* Model of the onboardai extraction engine (src/src/code_analyzer.py)     *)
(* and of its persistence gateways (src/src/database/sqlite_manager.py,    *)
(* MockDbManager in code_analyzer.py).                                     *)
(*                                                                         *)
(* A source text is represented by a small statement tree (the "source");  *)
(* Parse lays it out on lines and yields the concrete syntax tree the      *)
(* tree-sitter grammars produce for it.  The extraction functions are      *)
(* operators over that tree, translated branch by branch from the code.    *)
(***************************************************************************)
EXTENDS Integers, Sequences, FiniteSets, TLC

(***************************************************************************)
(* Bounds                                                                  *)
(***************************************************************************)
MaxRuns == 2        \* analyze_code calls per behaviour of Spec
MaxNodes == 3       \* statements per generated source (SpecExtract)
MaxParams == 3      \* parameters per generated signature (SpecParams)
MaxCallNodes == 3   \* statements and expressions per generated body (SpecCalls)
MaxSiblings == 3    \* top-level statements per generated module (SpecSiblings)
MaxScopeNodes == 3  \* statements per generated nesting (SpecScopes)

NONE == "<None>"    \* Python None for an optional text

(***************************************************************************)
(* Sequence helpers                                                        *)
(***************************************************************************)
Range(s) == {s[i] : i \in 1..Len(s)}

RECURSIVE Flatten(_)
Flatten(ss) == IF ss = <<>> THEN <<>> ELSE Head(ss) \o Flatten(Tail(ss))

\* a local binding: the value v under the name F gives it
Let(v, F(_)) == F(v)


(***************************************************************************)
(* Syntax tree nodes (tree_sitter.Node as the code reads it)               *)
(***************************************************************************)
Node(type, text, line, endl, fld, named, children) ==
    [type |-> type, text |-> text, line |-> line, endl |-> endl,
     field |-> fld, named |-> named, children |-> children]

NoNode == Node("<no node>", NONE, 0, 0, "", FALSE, <<>>)

Tok(type, ln) == Node(type, type, ln, ln, "", FALSE, <<>>)

Leaf(type, text, ln, fld) == Node(type, text, ln, ln, fld, TRUE, <<>>)

WithField(n, fld) == [n EXCEPT !.field = fld]

\* node.named_children
named_children(n) == SelectSeq(n.children, LAMBDA c : c.named)

\* every node below a node, in document order
RECURSIVE Descendants(_)
Descendants(n) ==
    Flatten([i \in 1..Len(n.children) |-> <<n.children[i]>> \o Descendants(n.children[i])])

\* node.named_child(i), 0-based as in the code
named_child(n, i) ==
    IF i + 1 <= Len(named_children(n)) THEN named_children(n)[i + 1] ELSE NoNode

\* node.child_by_field_name(name)
child_by_field_name(n, fld) ==
    LET hits == SelectSeq(n.children, LAMBDA c : c.field = fld)
    IN  IF hits = <<>> THEN NoNode ELSE hits[1]

\* Python truthiness of an Optional[Node]
IsNode(n) == n # NoNode

\* _get_node_text: the source text of a node (None for no node)
get_node_text(n) == n.text

(***************************************************************************)
(* Source texts.  A source is a sequence of statements; a statement is a   *)
(* record of one shape (unused fields are empty).                          *)
(***************************************************************************)
Stmt(k, name, typed, recv, args, params, body) ==
    [k |-> k, name |-> name, typed |-> typed, recv |-> recv,
     args |-> args, params |-> params, body |-> body]

SAssign(n)           == Stmt("assign", n, FALSE, "", <<>>, <<>>, <<>>)      \* n = 1
STypedAssign(n)      == Stmt("assign", n, TRUE, "", <<>>, <<>>, <<>>)       \* n: int = 1
SAssignExpr(n, e)    == Stmt("assign", n, FALSE, "", <<e>>, <<>>, <<>>)     \* n = e
SAttrAssign(n)       == Stmt("attr_assign", n, FALSE, "self", <<>>, <<>>, <<>>) \* self.n = 1
SName(n)             == Stmt("name", n, FALSE, "", <<>>, <<>>, <<>>)        \* n
SCall(recv, f, args) == Stmt("call", f, FALSE, recv, args, <<>>, <<>>)      \* [recv.]f(args)
SLambda(e)           == Stmt("lambda", "", FALSE, "", <<e>>, <<>>, <<>>)    \* lambda: e
SFunc(e)             == Stmt("funcexpr", "", FALSE, "", <<e>>, <<>>, <<>>)  \* function () { e; }
SCtl(k, body)        == Stmt(k, "", FALSE, "", <<>>, <<>>, body)            \* if / for / try / except
SDef(n, params, body) == Stmt("def", n, FALSE, "", <<>>, params, body)      \* def n(params): body
SArrow(n, params, body) == Stmt("arrow", n, FALSE, "", <<>>, params, body)  \* const n = (params) => {body}
SClass(n, body)      == Stmt("class", n, FALSE, "", <<>>, <<>>, body)       \* class n: body
SDoc                 == Stmt("doc", "doc", FALSE, "", <<>>, <<>>, <<>>)     \* """doc"""
SErr                 == Stmt("error", "", FALSE, "", <<>>, <<>>, <<>>)      \* an unparseable fragment

\* a parameter of a definition: k is its shape
Param(k, name) == [k |-> k, name |-> name]

\* "try" carries its body in the try block, "except" in the handler
Compound == {"if", "for", "try", "except", "def", "class", "arrow"}

\* number of source lines a statement takes
RECURSIVE Size(_, _), SumSizes(_, _)
\* an empty Python body is a pass statement
BodySize(body, lang) ==
    IF body = <<>> /\ lang = "python" THEN 1 ELSE SumSizes(body, lang)
Size(s, lang) ==
    IF s.k \notin Compound THEN 1
    ELSE IF lang = "python"
         THEN 1 + BodySize(s.body, lang) + (IF s.k \in {"try", "except"} THEN 2 ELSE 0)
         ELSE 2 + BodySize(s.body, lang) + (IF s.k \in {"try", "except"} THEN 1 ELSE 0)
SumSizes(body, lang) ==
    IF body = <<>> THEN 0 ELSE Size(Head(body), lang) + SumSizes(Tail(body), lang)

(***************************************************************************)
(* The Python grammar (tree-sitter-python node types and fields)           *)
(***************************************************************************)
RECURSIVE PyExpr(_, _, _)
PyExpr(e, ln, fld) ==
    CASE e.k = "name" -> Leaf("identifier", e.name, ln, fld)
      [] e.k = "call" ->
            LET fn == IF e.recv = ""
                      THEN Leaf("identifier", e.name, ln, "function")
                      ELSE Node("attribute", e.recv \o "." \o e.name, ln, ln, "function", TRUE,
                                << Leaf("identifier", e.recv, ln, "object"), Tok(".", ln),
                                   Leaf("identifier", e.name, ln, "attribute") >>)
                argl == Node("argument_list", "(..)", ln, ln, "arguments", TRUE,
                             <<Tok("(", ln)>>
                             \o [i \in 1..Len(e.args) |-> PyExpr(e.args[i], ln, "")]
                             \o <<Tok(")", ln)>>)
            IN  Node("call", fn.text \o "(..)", ln, ln, fld, TRUE, <<fn, argl>>)
      [] e.k = "lambda" ->
            Node("lambda", "lambda", ln, ln, fld, TRUE,
                 << Tok("lambda", ln), Tok(":", ln), PyExpr(e.args[1], ln, "body") >>)
      [] OTHER -> Leaf("integer", "1", ln, fld)

PyParam(p, ln) ==
    LET id  == Leaf("identifier", p.name, ln, "")
        ty  == Node("type", "int", ln, ln, "type", TRUE, <<Leaf("identifier", "int", ln, "")>>)
        val == Leaf("integer", "0", ln, "value")
    IN CASE p.k = "bare" -> id
         [] p.k = "default" ->
              Node("default_parameter", p.name \o "=0", ln, ln, "", TRUE,
                   << WithField(id, "name"), Tok("=", ln), val >>)
         [] p.k = "typed" ->
              Node("typed_parameter", p.name \o ":int", ln, ln, "", TRUE,
                   << id, Tok(":", ln), ty >>)
         [] p.k = "typed_default" ->
              Node("typed_default_parameter", p.name \o ":int=0", ln, ln, "", TRUE,
                   << WithField(id, "name"), Tok(":", ln), ty, Tok("=", ln), val >>)
         [] p.k = "star" ->
              Node("list_splat_pattern", "*" \o p.name, ln, ln, "", TRUE, << Tok("*", ln), id >>)
         [] OTHER ->
              Node("dictionary_splat_pattern", "**" \o p.name, ln, ln, "", TRUE,
                   << Tok("**", ln), id >>)

PyParameters(params, ln) ==
    Node("parameters", "(..)", ln, ln, "parameters", TRUE,
         <<Tok("(", ln)>> \o [i \in 1..Len(params) |-> PyParam(params[i], ln)] \o <<Tok(")", ln)>>)

RECURSIVE PyStmt(_, _), PyStmts(_, _), PyBlock(_, _, _)
PyStmts(body, ln) ==
    IF body = <<>> THEN <<>>
    ELSE <<PyStmt(Head(body), ln)>> \o PyStmts(Tail(body), ln + Size(Head(body), "python"))
PyBlock(body, ln, fld) ==
    Node("block", "block", ln, ln + BodySize(body, "python") - 1, fld, TRUE,
         IF body = <<>> THEN <<Leaf("pass_statement", "pass", ln, "")>> ELSE PyStmts(body, ln))
PyStmt(s, ln) ==
    LET endl == ln + Size(s, "python") - 1 IN
    CASE s.k = "assign" ->
            LET lhs == Leaf("identifier", s.name, ln, "left")
                rhs == IF s.args = <<>> THEN Leaf("integer", "1", ln, "right")
                       ELSE PyExpr(s.args[1], ln, "right")
                kids == IF s.typed
                        THEN << lhs, Tok(":", ln),
                                Node("type", "int", ln, ln, "type", TRUE,
                                     <<Leaf("identifier", "int", ln, "")>>),
                                Tok("=", ln), rhs >>
                        ELSE << lhs, Tok("=", ln), rhs >>
            IN  Node("expression_statement", s.name, ln, ln, "", TRUE,
                     << Node("assignment", s.name, ln, ln, "", TRUE, kids) >>)
      [] s.k = "attr_assign" ->
            Node("expression_statement", s.name, ln, ln, "", TRUE,
                 << Node("assignment", s.name, ln, ln, "", TRUE,
                         << Node("attribute", s.recv \o "." \o s.name, ln, ln, "left", TRUE,
                                 << Leaf("identifier", s.recv, ln, "object"), Tok(".", ln),
                                    Leaf("identifier", s.name, ln, "attribute") >>),
                            Tok("=", ln), Leaf("integer", "1", ln, "right") >>) >>)
      [] s.k \in {"call", "name", "lambda"} ->
            Node("expression_statement", s.name, ln, ln, "", TRUE, << PyExpr(s, ln, "") >>)
      [] s.k = "doc" ->
            Node("expression_statement", "doc", ln, ln, "", TRUE, << Leaf("string", "'doc'", ln, "") >>)
      [] s.k = "if" ->
            Node("if_statement", "if", ln, endl, "", TRUE,
                 << Tok("if", ln), Leaf("identifier", "cond", ln, "condition"), Tok(":", ln),
                    PyBlock(s.body, ln + 1, "consequence") >>)
      [] s.k = "for" ->
            Node("for_statement", "for", ln, endl, "", TRUE,
                 << Tok("for", ln), Leaf("identifier", "it", ln, "left"), Tok("in", ln),
                    Leaf("identifier", "items", ln, "right"), Tok(":", ln),
                    PyBlock(s.body, ln + 1, "body") >>)
      [] s.k = "try" ->
            Node("try_statement", "try", ln, endl, "", TRUE,
                 << Tok("try", ln), Tok(":", ln), PyBlock(s.body, ln + 1, "body"),
                    Node("except_clause", "except", endl - 1, endl, "", TRUE,
                         << Tok("except", endl - 1), Tok(":", endl - 1),
                            PyBlock(<<>>, endl, "") >>) >>)
      [] s.k = "except" ->
            Node("try_statement", "try", ln, endl, "", TRUE,
                 << Tok("try", ln), Tok(":", ln), PyBlock(<<>>, ln + 1, "body"),
                    Node("except_clause", "except", ln + 2, endl, "", TRUE,
                         << Tok("except", ln + 2), Tok(":", ln + 2),
                            PyBlock(s.body, ln + 3, "") >>) >>)
      [] s.k = "def" ->
            Node("function_definition", "def " \o s.name, ln, endl, "", TRUE,
                 <<Tok("def", ln)>>
                 \o (IF s.name = "" THEN <<>> ELSE <<Leaf("identifier", s.name, ln, "name")>>)
                 \o << PyParameters(s.params, ln), Tok(":", ln), PyBlock(s.body, ln + 1, "body") >>)
      [] s.k = "class" ->
            Node("class_definition", "class " \o s.name, ln, endl, "", TRUE,
                 <<Tok("class", ln)>>
                 \o (IF s.name = "" THEN <<>> ELSE <<Leaf("identifier", s.name, ln, "name")>>)
                 \o << Tok(":", ln), PyBlock(s.body, ln + 1, "body") >>)
      [] OTHER ->
            Node("ERROR", "?", ln, ln, "", TRUE, << Leaf("identifier", "junk", ln, "") >>)

PyModule(src) ==
    Node("module", "module", 1, SumSizes(src, "python") + 1, "", TRUE, PyStmts(src, 1))

(***************************************************************************)
(* The JavaScript / TypeScript grammars (tree-sitter-javascript and        *)
(* tree-sitter-typescript node types and fields); ts selects the dialect.  *)
(***************************************************************************)
JsTypeAnnotation(ln) ==
    Node("type_annotation", ": number", ln, ln, "type", TRUE,
         << Tok(":", ln), Leaf("predefined_type", "number", ln, "") >>)

RECURSIVE JsExpr(_, _, _)
JsExpr(e, ln, fld) ==
    CASE e.k = "name" -> Leaf("identifier", e.name, ln, fld)
      [] e.k = "call" ->
            LET fn == IF e.recv = ""
                      THEN Leaf("identifier", e.name, ln, "function")
                      ELSE Node("member_expression", e.recv \o "." \o e.name, ln, ln,
                                "function", TRUE,
                                << Leaf("identifier", e.recv, ln, "object"), Tok(".", ln),
                                   Leaf("property_identifier", e.name, ln, "property") >>)
                argl == Node("arguments", "(..)", ln, ln, "arguments", TRUE,
                             <<Tok("(", ln)>>
                             \o [i \in 1..Len(e.args) |-> JsExpr(e.args[i], ln, "")]
                             \o <<Tok(")", ln)>>)
            IN  Node("call_expression", fn.text \o "(..)", ln, ln, fld, TRUE, <<fn, argl>>)
      [] e.k = "lambda" ->
            Node("arrow_function", "=>", ln, ln, fld, TRUE,
                 << Node("formal_parameters", "()", ln, ln, "parameters", TRUE,
                         << Tok("(", ln), Tok(")", ln) >>),
                    Tok("=>", ln), JsExpr(e.args[1], ln, "body") >>)
      [] e.k = "funcexpr" ->
            Node("function_expression", "function", ln, ln, fld, TRUE,
                 << Tok("function", ln),
                    Node("formal_parameters", "()", ln, ln, "parameters", TRUE,
                         << Tok("(", ln), Tok(")", ln) >>),
                    Node("statement_block", "{..}", ln, ln, "body", TRUE,
                         << Tok("{", ln),
                            Node("expression_statement", "", ln, ln, "", TRUE,
                                 << JsExpr(e.args[1], ln, ""), Tok(";", ln) >>),
                            Tok("}", ln) >>) >>)
      [] OTHER -> Leaf("number", "1", ln, fld)

JsParam(p, ln, ts) ==
    LET id  == Leaf("identifier", p.name, ln, "")
        val == Leaf("number", "0", ln, "value")
    IN CASE p.k = "bare" ->
              IF ts THEN Node("required_parameter", p.name, ln, ln, "", TRUE,
                              << WithField(id, "pattern") >>)
              ELSE id
         [] p.k = "default" ->
              IF ts THEN Node("required_parameter", p.name \o "=0", ln, ln, "", TRUE,
                              << WithField(id, "pattern"), Tok("=", ln), val >>)
              ELSE Node("assignment_pattern", p.name \o "=0", ln, ln, "", TRUE,
                        << WithField(id, "left"), Tok("=", ln), WithField(val, "right") >>)
         [] p.k = "typed" ->
              IF ts THEN Node("required_parameter", p.name \o ":number", ln, ln, "", TRUE,
                              << WithField(id, "pattern"), JsTypeAnnotation(ln) >>)
              ELSE id
         [] p.k = "typed_default" ->
              IF ts THEN Node("required_parameter", p.name \o ":number=0", ln, ln, "", TRUE,
                              << WithField(id, "pattern"), JsTypeAnnotation(ln),
                                 Tok("=", ln), val >>)
              ELSE Node("assignment_pattern", p.name \o "=0", ln, ln, "", TRUE,
                        << WithField(id, "left"), Tok("=", ln), WithField(val, "right") >>)
         [] OTHER ->
              LET rest == Node("rest_pattern", "..." \o p.name, ln, ln, "", TRUE,
                               << Tok("...", ln), id >>)
              IN  IF ts THEN Node("required_parameter", "..." \o p.name, ln, ln, "", TRUE,
                                  << WithField(rest, "pattern") >>)
                  ELSE rest

JsParameters(params, ln, ts) ==
    Node("formal_parameters", "(..)", ln, ln, "parameters", TRUE,
         <<Tok("(", ln)>> \o [i \in 1..Len(params) |-> JsParam(params[i], ln, ts)]
         \o <<Tok(")", ln)>>)

\* inClass: the statement is a member of a class body
RECURSIVE JsStmt(_, _, _, _), JsStmts(_, _, _, _), JsBlock(_, _, _, _, _)
JsStmts(body, ln, ts, inClass) ==
    IF body = <<>> THEN <<>>
    ELSE <<JsStmt(Head(body), ln, ts, inClass)>>
         \o JsStmts(Tail(body), ln + Size(Head(body), "javascript"), ts, inClass)
\* a braced body opening on line ln: statement_block, or class_body of a class
JsBlock(type, body, ln, ts, fld) ==
    Node(type, "{..}", ln, ln + BodySize(body, "javascript") + 1, fld, TRUE,
         <<Tok("{", ln)>> \o JsStmts(body, ln + 1, ts, type = "class_body")
         \o <<Tok("}", ln + BodySize(body, "javascript") + 1)>>)
JsStmt(s, ln, ts, inClass) ==
    LET endl == ln + Size(s, "javascript") - 1 IN
    CASE s.k = "assign" /\ ~inClass ->
            LET rhs == IF s.args = <<>> THEN Leaf("number", "1", ln, "value")
                       ELSE JsExpr(s.args[1], ln, "value")
            IN  Node("lexical_declaration", "let " \o s.name, ln, ln, "", TRUE,
                     << Tok("let", ln),
                        Node("variable_declarator", s.name, ln, ln, "", TRUE,
                             <<Leaf("identifier", s.name, ln, "name")>>
                             \o (IF s.typed /\ ts THEN <<JsTypeAnnotation(ln)>> ELSE <<>>)
                             \o << Tok("=", ln), rhs >>),
                        Tok(";", ln) >>)
      [] s.k = "assign" /\ inClass ->
            IF ts
            THEN Node("public_field_definition", s.name, ln, ln, "", TRUE,
                      <<Leaf("property_identifier", s.name, ln, "name")>>
                      \o (IF s.typed THEN <<JsTypeAnnotation(ln)>> ELSE <<>>)
                      \o << Tok("=", ln), Leaf("number", "1", ln, "value") >>)
            ELSE Node("field_definition", s.name, ln, ln, "", TRUE,
                      << Leaf("property_identifier", s.name, ln, "property"),
                         Tok("=", ln), Leaf("number", "1", ln, "value") >>)
      [] s.k = "attr_assign" ->
            Node("expression_statement", s.name, ln, ln, "", TRUE,
                 << Node("assignment_expression", s.name, ln, ln, "", TRUE,
                         << Node("member_expression", "this." \o s.name, ln, ln, "left", TRUE,
                                 << Leaf("this", "this", ln, "object"), Tok(".", ln),
                                    Leaf("property_identifier", s.name, ln, "property") >>),
                            Tok("=", ln), Leaf("number", "1", ln, "right") >>),
                    Tok(";", ln) >>)
      [] s.k \in {"call", "name", "lambda"} ->
            Node("expression_statement", s.name, ln, ln, "", TRUE,
                 << JsExpr(s, ln, ""), Tok(";", ln) >>)
      [] s.k = "doc" ->
            Node("expression_statement", "doc", ln, ln, "", TRUE,
                 << Leaf("string", "'doc'", ln, ""), Tok(";", ln) >>)
      [] s.k = "if" ->
            Node("if_statement", "if", ln, endl, "", TRUE,
                 << Tok("if", ln),
                    Node("parenthesized_expression", "(cond)", ln, ln, "condition", TRUE,
                         << Tok("(", ln), Leaf("identifier", "cond", ln, ""), Tok(")", ln) >>),
                    JsBlock("statement_block", s.body, ln, ts, "consequence") >>)
      [] s.k = "for" ->
            Node("for_in_statement", "for", ln, endl, "", TRUE,
                 << Tok("for", ln), Tok("(", ln), Tok("const", ln),
                    Leaf("identifier", "it", ln, "left"), Tok("of", ln),
                    Leaf("identifier", "items", ln, "right"), Tok(")", ln),
                    JsBlock("statement_block", s.body, ln, ts, "body") >>)
      [] s.k = "try" ->
            Node("try_statement", "try", ln, endl, "", TRUE,
                 << Tok("try", ln), JsBlock("statement_block", s.body, ln, ts, "body"),
                    Node("catch_clause", "catch", endl - 1, endl, "handler", TRUE,
                         << Tok("catch", endl - 1),
                            JsBlock("statement_block", <<>>, endl - 1, ts, "body") >>) >>)
      [] s.k = "except" ->
            Node("try_statement", "try", ln, endl, "", TRUE,
                 << Tok("try", ln), JsBlock("statement_block", <<>>, ln, ts, "body"),
                    Node("catch_clause", "catch", ln + 1, endl, "handler", TRUE,
                         << Tok("catch", ln + 1),
                            JsBlock("statement_block", s.body, ln + 1, ts, "body") >>) >>)
      [] s.k = "def" ->
            LET nameKids == IF s.name = "" THEN <<>>
                            ELSE <<Leaf(IF inClass THEN "property_identifier" ELSE "identifier",
                                        s.name, ln, "name")>>
                rest == << JsParameters(s.params, ln, ts),
                           JsBlock("statement_block", s.body, ln, ts, "body") >>
            IN  IF inClass
                THEN Node("method_definition", s.name, ln, endl, "", TRUE, nameKids \o rest)
                ELSE Node("function_declaration", "function " \o s.name, ln, endl, "", TRUE,
                          <<Tok("function", ln)>> \o nameKids \o rest)
      [] s.k = "arrow" ->
            Node("lexical_declaration", "const " \o s.name, ln, endl, "", TRUE,
                 << Tok("const", ln),
                    Node("variable_declarator", s.name, ln, endl, "", TRUE,
                         << Leaf("identifier", s.name, ln, "name"), Tok("=", ln),
                            Node("arrow_function", "=>", ln, endl, "value", TRUE,
                                 << JsParameters(s.params, ln, ts), Tok("=>", ln),
                                    JsBlock("statement_block", s.body, ln, ts, "body") >>) >>),
                    Tok(";", endl) >>)
      [] s.k = "class" ->
            Node("class_declaration", "class " \o s.name, ln, endl, "", TRUE,
                 <<Tok("class", ln)>>
                 \o (IF s.name = "" THEN <<>>
                     ELSE <<Leaf(IF ts THEN "type_identifier" ELSE "identifier",
                                 s.name, ln, "name")>>)
                 \o << JsBlock("class_body", s.body, ln, ts, "body") >>)
      [] OTHER ->
            Node("ERROR", "?", ln, ln, "", TRUE, << Leaf("identifier", "junk", ln, "") >>)

JsProgram(src, ts) ==
    Node("program", "program", 1, SumSizes(src, "javascript") + 1, "", TRUE,
         JsStmts(src, 1, ts, FALSE))

(***************************************************************************)
(* self.parser.parse: the tree of a source under the file's language       *)
(***************************************************************************)
Parse(src, language, file_extension) ==
    IF language = "python" THEN PyModule(src)
    ELSE JsProgram(src, file_extension = "ts")

(***************************************************************************)
(* Entity model                                                            *)
(***************************************************************************)
ParameterInfo(name, default_value, type_annotation) ==
    [name |-> name, default_value |-> default_value, type_annotation |-> type_annotation]

\* a Variable whose is_global flag is set whatever the scope
VariableInfo_always_global(name, value, type_annotation, is_global, is_class_attribute, is_function_local, defined_at_line) ==
    [name |-> name, value |-> value, type_annotation |-> type_annotation,
     is_global |-> TRUE, is_class_attribute |-> is_class_attribute,
     is_function_local |-> is_function_local, defined_at_line |-> defined_at_line]

VariableInfo(name, value, type_annotation, is_global, is_class_attribute, is_function_local, defined_at_line) ==
    [name |-> name, value |-> value, type_annotation |-> type_annotation,
     is_global |-> is_global, is_class_attribute |-> is_class_attribute,
     is_function_local |-> is_function_local, defined_at_line |-> defined_at_line]

\* text of the last node of a sequence, None when it is empty ("last one wins" loops)
LastText(nodes) == IF nodes = <<>> THEN NONE ELSE nodes[Len(nodes)].text

OfType(nodes, types) == SelectSeq(nodes, LAMBDA c : c.type \in types)

(***************************************************************************)
(* CodeAnalyzer._extract_parameters                                        *)
(***************************************************************************)
\* the ParameterInfos (none or one) one child of the parameter list yields
ParameterOfChild(child, language, file_extension) ==
    LET name_node == child_by_field_name(child, "name")
        value_node == child_by_field_name(child, "value")
        \* text of the type_annotation's first named child, for the last type_annotation
        annType(kids) ==
            LET anns == OfType(kids, {"type_annotation"})
            IN  IF anns = <<>> THEN NONE
                ELSE LET type_node == named_child(anns[Len(anns)], 0)
                     IN  IF IsNode(type_node) THEN type_node.text ELSE NONE
    IN
    CASE child.type = "identifier" ->
            << ParameterInfo(child.text, NONE, NONE) >>
      [] child.type = "default_parameter" /\ language = "python" ->
            IF IsNode(name_node)
            THEN << ParameterInfo(name_node.text,
                                  IF IsNode(value_node) THEN value_node.text ELSE NONE, NONE) >>
            ELSE <<>>
      [] child.type \in {"typed_parameter", "typed_default_parameter"} /\ language = "python" ->
            LET param_name  == LastText(OfType(child.children, {"identifier"}))
                param_type  == LastText(OfType(child.children, {"type"}))
                param_value == LastText(OfType(child.children, {"default"}))
            IN  IF param_name # NONE
                THEN << ParameterInfo(param_name, param_value, param_type) >>
                ELSE <<>>
      [] child.type = "parameter" /\ language = "javascript" ->
            LET param_name == LastText(OfType(named_children(child), {"identifier"}))
            IN  IF param_name # NONE
                THEN << ParameterInfo(param_name, NONE, annType(named_children(child))) >>
                ELSE <<>>
      [] child.type = "required_parameter" /\ language = "javascript"
         /\ file_extension = "ts" ->
            LET param_name  == LastText(OfType(named_children(child), {"identifier"}))
                param_value == LastText(OfType(named_children(child), {"number", "string"}))
            IN  IF param_name # NONE
                THEN << ParameterInfo(param_name, param_value, annType(named_children(child))) >>
                ELSE <<>>
      [] child.type = "optional_parameter" /\ language = "javascript"
         /\ file_extension = "ts" ->
            LET param_name == LastText(OfType(named_children(child), {"identifier"}))
                asgs == OfType(named_children(child), {"assignment_expression"})
                param_value ==
                    IF asgs = <<>> THEN NONE
                    ELSE LET v == child_by_field_name(asgs[Len(asgs)], "right")
                         IN  IF IsNode(v) THEN v.text ELSE NONE
            IN  IF param_name # NONE
                THEN << ParameterInfo(param_name, param_value, annType(named_children(child))) >>
                ELSE <<>>
      [] child.type \in {"positional_wildcard_parameter", "keyword_wildcard_parameter"}
         /\ language = "python" ->
            IF IsNode(name_node) THEN << ParameterInfo(name_node.text, NONE, NONE) >> ELSE <<>>
      [] OTHER -> <<>>

\* parameters.insert(0, ...) instead of parameters.append(...)
extract_parameters_prepend(func_node, language, file_extension) ==
    LET parameters_node == child_by_field_name(func_node, "parameters")
    IN  IF IsNode(parameters_node)
        THEN LET kids == named_children(parameters_node)
             IN  Flatten([i \in 1..Len(kids) |->
                             ParameterOfChild(kids[Len(kids) + 1 - i], language, file_extension)])
        ELSE <<>>

extract_parameters(func_node, language, file_extension) ==
    LET parameters_node == child_by_field_name(func_node, "parameters")
    IN  IF IsNode(parameters_node)
        THEN LET kids == named_children(parameters_node)
             IN  Flatten([i \in 1..Len(kids) |->
                             ParameterOfChild(kids[i], language, file_extension)])
        ELSE <<>>

(***************************************************************************)
(* CodeAnalyzer._extract_variables                                         *)
(***************************************************************************)
\* The statements of one node: [vars, seen] after the node's own branch
\* (lines 220-309), given the names seen so far in this call.
PyAssignmentOf(node, seen, g, c, f) ==
    LET expression_node == named_child(node, 0)
        name_node == named_child(expression_node, 0)
        nk == named_children(expression_node)
        eqs == {i \in 1..Len(expression_node.children) : expression_node.children[i].type = "="}
        eq1 == CHOOSE i \in eqs : \A j \in eqs : i <= j
        annotated == Len(nk) >= 3 /\ nk[2].type = "type"
        var_type == IF annotated THEN nk[2].text ELSE NONE
        var_value ==
            IF annotated
            THEN (IF eqs # {} /\ eq1 + 1 <= Len(expression_node.children)
                  THEN expression_node.children[eq1 + 1].text ELSE NONE)
            ELSE (IF Len(nk) > 1 THEN nk[2].text ELSE NONE)
    IN  IF /\ IsNode(expression_node)
           /\ expression_node.type = "assignment"
           /\ IsNode(name_node)
           /\ name_node.type = "identifier"
           /\ name_node.text \notin seen
        THEN [vars |-> << VariableInfo(name_node.text, var_value, var_type, g, c, f,
                                       name_node.line) >>,
              seen |-> seen \cup {name_node.text}]
        ELSE [vars |-> <<>>, seen |-> seen]

RECURSIVE JsDeclaratorsOf(_, _, _, _, _, _)
JsDeclaratorsOf(decls, i, seen, g, c, f) ==
    IF i > Len(decls) THEN [vars |-> <<>>, seen |-> seen]
    ELSE LET declarator == decls[i]
             name_node == child_by_field_name(declarator, "name")
             value_node == child_by_field_name(declarator, "value")
             anns == OfType(declarator.children, {"type_annotation"})
             type_node == IF anns = <<>> THEN NoNode ELSE named_child(anns[1], 0)
             take == /\ declarator.type = "variable_declarator"
                     /\ IsNode(name_node)
                     /\ name_node.text \notin seen
                     /\ IsNode(value_node)
                     /\ value_node.type # "arrow_function"
             rest == JsDeclaratorsOf(decls, i + 1,
                                     IF take THEN seen \cup {name_node.text} ELSE seen, g, c, f)
         IN  IF take
             THEN [vars |-> << VariableInfo(name_node.text, value_node.text,
                                            IF IsNode(type_node) THEN type_node.text ELSE NONE,
                                            g, c, f, name_node.line) >> \o rest.vars,
                   seen |-> rest.seen]
             ELSE rest

JsFieldOf(node, seen, g, c, f) ==
    LET name_node == child_by_field_name(node, "name")
        value_node == child_by_field_name(node, "value")
        anns == OfType(node.children, {"type_annotation"})
        type_node == IF anns = <<>> THEN NoNode ELSE named_child(anns[1], 0)
    IN  IF IsNode(name_node) /\ name_node.text \notin seen
        THEN [vars |-> << VariableInfo(name_node.text,
                                       IF IsNode(value_node) THEN value_node.text ELSE NONE,
                                       IF IsNode(type_node) THEN type_node.text ELSE NONE,
                                       g, c, f, name_node.line) >>,
              seen |-> seen \cup {name_node.text}]
        ELSE [vars |-> <<>>, seen |-> seen]

\* the branch the node's type selects (if / elif / elif of lines 220, 257, 286)
VariablesOfNode(node, seen, language, g, c, f) ==
    CASE language = "python" /\ node.type = "expression_statement" ->
            PyAssignmentOf(node, seen, g, c, f)
      [] language = "javascript"
         /\ node.type \in {"variable_declaration", "lexical_declaration"} ->
            JsDeclaratorsOf(named_children(node), 1, seen, g, c, f)
      [] language = "javascript" /\ node.type = "public_field_definition" /\ c ->
            JsFieldOf(node, seen, g, c, f)
      [] OTHER -> [vars |-> <<>>, seen |-> seen]

\* lines 310-314: does the pass descend into this child
DescendsForVariables(node, language, g) ==
    IF language = "python"
    THEN /\ node.type \notin {"assignment", "annotated_assignment"}
         /\ (~g \/ node.type \notin {"function_definition", "class_definition"})
    ELSE /\ language = "javascript"
         /\ node.type \notin {"variable_declaration", "lexical_declaration",
                              "function_declaration", "class_declaration",
                              "method_definition", "public_field_definition",
                              "arrow_function"}

RECURSIVE extract_variables(_, _, _, _, _), ExtractVariablesLoop(_, _, _, _, _, _, _)
\* the cursor loop over the scope node's children; seen is the call's seen_variables
ExtractVariablesLoop(kids, i, seen, language, g, c, f) ==
    IF i > Len(kids) THEN <<>>
    ELSE LET node == kids[i] IN
         IF node.type = "ERROR"
         THEN ExtractVariablesLoop(kids, i + 1, seen, language, g, c, f)
         ELSE LET own == VariablesOfNode(node, seen, language, g, c, f)
                  nested == IF DescendsForVariables(node, language, g)
                            THEN extract_variables(node, language, g, c, f)
                            ELSE <<>>
              IN  own.vars \o nested
                  \o ExtractVariablesLoop(kids, i + 1, own.seen, language, g, c, f)

extract_variables(scope_node, language, is_global, is_class_attribute, is_function_local) ==
    ExtractVariablesLoop(scope_node.children, 1, {}, language,
                         is_global, is_class_attribute, is_function_local)

(***************************************************************************)
(* CodeAnalyzer._extract_function_calls.  Every call of it ends with        *)
(* list(set(calls)): the names without duplicates, in the order this        *)
(* process iterates the set, which the code does not fix (order).           *)
(***************************************************************************)
\* return calls: the list as collected
ListOfSet_as_collected(calls, order) == calls

\* the names of a list, once each, in the iteration order of the set
ListOfSet(calls, order) == SelectSeq(order, LAMBDA n : n \in Range(calls))

\* the whole callee text of every call
CalleeOf_whole_callee(current_node, language) ==
    LET function_node == child_by_field_name(current_node, "function")
    IN  IF /\ (current_node.type = "call"
               \/ (language = "javascript" /\ current_node.type = "call_expression"))
           /\ IsNode(function_node)
        THEN <<function_node.text>>
        ELSE <<>>

\* lines 331-343: the callee name (none or one) a node contributes
CalleeOf(current_node, language) ==
    LET function_node == child_by_field_name(current_node, "function")
        property == child_by_field_name(function_node, "property")
        attribute == child_by_field_name(function_node, "attribute")
    IN  IF /\ (current_node.type = "call"
               \/ (language = "javascript" /\ current_node.type = "call_expression"))
           /\ IsNode(function_node)
        THEN CASE function_node.type = "identifier" -> <<function_node.text>>
               [] function_node.type = "member_expression" /\ language = "javascript" ->
                    IF IsNode(property) THEN <<property.text>> ELSE <<>>
               [] function_node.type = "attribute" /\ language = "python" ->
                    IF IsNode(attribute) THEN <<attribute.text>> ELSE <<>>
               [] OTHER -> <<>>
        ELSE <<>>

\* lines 344-347: does the pass descend into this child
DescendsForCalls(node, language) ==
    IF language = "python"
    THEN node.type \notin {"function_definition", "class_definition", "lambda"}
    ELSE /\ language = "javascript"
         /\ node.type \notin {"function_declaration", "class_declaration",
                              "arrow_function", "method_definition"}

RECURSIVE extract_function_calls(_, _, _), ExtractCallsLoop(_, _, _, _)
\* the cursor loop over the node's children: the list calls before line 350
ExtractCallsLoop(kids, i, language, order) ==
    IF i > Len(kids) THEN <<>>
    ELSE IF kids[i].type = "ERROR" THEN ExtractCallsLoop(kids, i + 1, language, order)
    ELSE CalleeOf(kids[i], language)
         \o (IF DescendsForCalls(kids[i], language)
             THEN extract_function_calls(kids[i], language, order)
             ELSE <<>>)
         \o ExtractCallsLoop(kids, i + 1, language, order)

extract_function_calls(node, language, order) ==
    ListOfSet(ExtractCallsLoop(node.children, 1, language, order), order)

(***************************************************************************)
(* Persistence gateways.  A gateway state db is a record of the six        *)
(* tables (sequences of rows in insertion order; no row is ever deleted,   *)
(* so AUTOINCREMENT gives a row the id of its position), of the gateway    *)
(* kind ("sqlite": SQLiteManager, "mock": MockDbManager), of the inserts   *)
(* the store rejects in this run, of the calls issued so far in this run   *)
(* (log) and of the value the last call returned (ret; 0 is None).         *)
(***************************************************************************)
LogEntry(op, file_id, class_id, function_id, name, ret) ==
    [op |-> op, file_id |-> file_id, class_id |-> class_id,
     function_id |-> function_id, name |-> name, ret |-> ret]

Returned(db, entry, ret) ==
    [db EXCEPT !.ret = ret, !.log = Append(@, [entry EXCEPT !.ret = ret])]

\* an extraction step of the run, entered in the run's trace between the gateway
\* calls: the _extract_* calls made for the module, a class or a function
Extracted(db, name) ==
    [db EXCEPT !.log = Append(@, LogEntry("extract", 0, 0, 0, name, 0))]

\* SQLiteManager._execute_query fails: sqlite3.Error caught, False returned
Rejected(db, op) == db.kind = "sqlite" /\ op \in db.reject

FileIdsOfPath(db, path) == {i \in 1..Len(db.files) : db.files[i].path = path}

\* get_file_by_path: the row, or None
get_file_by_path(db, path) ==
    LET ids == FileIdsOfPath(db, path)
        id == IF ids = {} THEN 0 ELSE CHOOSE i \in ids : \A j \in ids : i <= j
    IN  Returned(db, LogEntry("get_file_by_path", 0, 0, 0, path.stem \o path.ext, 0), id)

\* SQLiteManager.insert_file: a plain INSERT; Files.path is UNIQUE, so a second row
\* for the path raises sqlite3.IntegrityError, which _execute_query turns into None
SqliteInsertFile(db, path, last_modified_at, checksum, full_content) ==
    LET entry == LogEntry("insert_file", 0, 0, 0, path.stem \o path.ext, 0)
        id == Len(db.files) + 1
    IN  IF Rejected(db, "insert_file") \/ FileIdsOfPath(db, path) # {}
        THEN Returned(db, entry, 0)
        ELSE Returned([db EXCEPT !.files = Append(@,
                          [id |-> id, path |-> path, last_modified_at |-> last_modified_at,
                           checksum |-> checksum, full_content |-> full_content])],
                      entry, id)

\* MockDbManager.insert_file: the id of the existing row of the path, else a new row
MockInsertFile(db, path, last_modified_at, checksum, full_content) ==
    LET entry == LogEntry("insert_file", 0, 0, 0, path.stem \o path.ext, 0)
        ids == FileIdsOfPath(db, path)
        id == Len(db.files) + 1
    IN  IF ids # {}
        THEN Returned(db, entry, CHOOSE i \in ids : \A j \in ids : i <= j)
        ELSE Returned([db EXCEPT !.files = Append(@,
                          [id |-> id, path |-> path, last_modified_at |-> last_modified_at,
                           checksum |-> checksum, full_content |-> full_content])],
                      entry, id)

\* an INSERT into a Files table whose path column is not UNIQUE
insert_file_no_unique(db, path, last_modified_at, checksum, full_content) ==
    Returned([db EXCEPT !.files = Append(@,
                 [id |-> Len(db.files) + 1, path |-> path,
                  last_modified_at |-> last_modified_at,
                  checksum |-> checksum, full_content |-> full_content])],
             LogEntry("insert_file", 0, 0, 0, path.stem \o path.ext, 0), Len(db.files) + 1)

insert_file(db, path, last_modified_at, checksum, full_content) ==
    IF db.kind = "sqlite"
    THEN SqliteInsertFile(db, path, last_modified_at, checksum, full_content)
    ELSE MockInsertFile(db, path, last_modified_at, checksum, full_content)

insert_class(db, file_id, class_info) ==
    LET entry == LogEntry("insert_class", file_id, 0, 0, class_info.name, 0)
        same == {i \in 1..Len(db.classes) :
                    db.classes[i].file_id = file_id /\ db.classes[i].name = class_info.name}
        id == Len(db.classes) + 1
        row == [id |-> id, file_id |-> file_id, name |-> class_info.name,
                start_line |-> class_info.start_line, end_line |-> class_info.end_line,
                docstring |-> class_info.docstring, body |-> class_info.body]
    IN  IF Rejected(db, "insert_class") THEN Returned(db, entry, 0)
        ELSE IF db.kind = "mock" /\ same # {}
        THEN Returned(db, entry, CHOOSE i \in same : \A j \in same : i <= j)
        ELSE Returned([db EXCEPT !.classes = Append(@, row)], entry, id)

insert_function(db, file_id, class_id, func_info) ==
    LET entry == LogEntry("insert_function", file_id, class_id, 0, func_info.name, 0)
        same == {i \in 1..Len(db.functions) :
                    /\ db.functions[i].file_id = file_id
                    /\ db.functions[i].class_id = class_id
                    /\ db.functions[i].name = func_info.name}
        id == Len(db.functions) + 1
        row == [id |-> id, file_id |-> file_id, class_id |-> class_id,
                name |-> func_info.name, start_line |-> func_info.start_line,
                end_line |-> func_info.end_line, docstring |-> func_info.docstring,
                body |-> func_info.body,
                signature |-> IF db.kind = "sqlite"
                              THEN [i \in 1..Len(func_info.parameters) |->
                                       func_info.parameters[i].name]
                              ELSE <<>>]
    IN  IF Rejected(db, "insert_function") THEN Returned(db, entry, 0)
        ELSE IF db.kind = "mock" /\ same # {}
        THEN Returned(db, entry, CHOOSE i \in same : \A j \in same : i <= j)
        ELSE Returned([db EXCEPT !.functions = Append(@, row)], entry, id)

insert_parameter(db, function_id, param_info) ==
    LET id == Len(db.parameters) + 1
    IN  Returned([db EXCEPT !.parameters = Append(@,
                     [id |-> id, function_id |-> function_id, name |-> param_info.name,
                      type_annotation |-> param_info.type_annotation,
                      default_value |-> param_info.default_value])],
                 LogEntry("insert_parameter", 0, 0, function_id, param_info.name, 0), id)

insert_variable(db, variable_info, file_id, class_id, function_id) ==
    LET id == Len(db.variables) + 1
    IN  Returned([db EXCEPT !.variables = Append(@,
                     [id |-> id, file_id |-> file_id, class_id |-> class_id,
                      function_id |-> function_id, name |-> variable_info.name,
                      value |-> variable_info.value,
                      type_annotation |-> variable_info.type_annotation,
                      is_global |-> variable_info.is_global,
                      is_class_attribute |-> variable_info.is_class_attribute,
                      is_function_local |-> variable_info.is_function_local,
                      defined_at_line |-> variable_info.defined_at_line])],
                 LogEntry("insert_variable", file_id, class_id, function_id,
                          variable_info.name, 0), id)

insert_function_call(db, calling_function_id, called_name, call_line_number) ==
    LET id == Len(db.function_calls) + 1
    IN  Returned([db EXCEPT !.function_calls = Append(@,
                     [id |-> id, calling_function_id |-> calling_function_id,
                      called_name |-> called_name, call_line_number |-> call_line_number])],
                 LogEntry("insert_function_call", 0, 0, calling_function_id, called_name, 0),
                 id)

\* a for loop issuing one insert per element of a list
RECURSIVE InsertParameters(_, _, _), InsertVariables(_, _, _, _, _), InsertCalls(_, _, _)
\* insert_variable(var) without the keyword argument that names the owner
InsertVariables_without_owner(db, vars, file_id, class_id, function_id) ==
    IF vars = <<>> THEN db
    ELSE InsertVariables(insert_variable(db, Head(vars), 0, 0, 0),
                         Tail(vars), file_id, class_id, function_id)
InsertVariables(db, vars, file_id, class_id, function_id) ==
    IF vars = <<>> THEN db
    ELSE InsertVariables(insert_variable(db, Head(vars), file_id, class_id, function_id),
                         Tail(vars), file_id, class_id, function_id)
InsertParameters(db, function_id, params) ==
    IF params = <<>> THEN db
    ELSE InsertParameters(insert_parameter(db, function_id, Head(params)),
                          function_id, Tail(params))
InsertCalls(db, function_id, calls) ==
    IF calls = <<>> THEN db
    ELSE InsertCalls(insert_function_call(db, function_id, Head(calls), -1),
                     function_id, Tail(calls))

(***************************************************************************)
(* CodeAnalyzer._visit_function_definition, _visit_class_definition        *)
(***************************************************************************)
NoInfo == [none |-> TRUE]

\* str.strip('"\'') of a string literal's text
StripQuotes(text) == IF text = "'doc'" THEN "doc" ELSE text

\* docstring of a body: only a Python body whose first child is a bare string
DocstringOf(body_node, language) ==
    IF language = "python" /\ IsNode(body_node) /\ body_node.children # <<>>
    THEN LET first_child == body_node.children[1]
         IN  IF /\ first_child.type = "expression_statement"
                /\ first_child.children # <<>>
                /\ first_child.children[1].type = "string"
             THEN StripQuotes(first_child.children[1].text)
             ELSE NONE
    ELSE NONE

\* a definition without a name that is kept
Discarded_never(name_node, is_arrow) == FALSE

\* line 368: a definition without a name node is discarded, unless it is an arrow
Discarded(name_node, is_arrow) == ~IsNode(name_node) /\ ~is_arrow

\* a span that ends where the body starts (body_node.start_point[0])
end_line_at_body_start(node, body_node) ==
    IF IsNode(body_node) THEN body_node.line - 1 ELSE node.endl - 1

\* line 372: the last line of the body, or of the node when it has no body
end_line(node, body_node) ==
    IF IsNode(body_node) THEN body_node.endl ELSE node.endl

\* a function whose insert failed is returned all the same
AfterInsertFunction_keeps_info(db1, func_info) ==
    IF db1.ret = 0
    THEN [db |-> db1, info |-> func_info]
    ELSE [db |-> InsertCalls(
                    InsertVariables(
                       InsertParameters(db1, db1.ret, func_info.parameters),
                       func_info.variables, 0, 0, db1.ret),
                    db1.ret, func_info.calls_made),
          info |-> func_info]

\* the inserts of the parameters, variables and calls without the check of the id
AfterInsertFunction_without_check(db1, func_info) ==
    [db |-> InsertCalls(
               InsertVariables(
                  InsertParameters(db1, db1.ret, func_info.parameters),
                  func_info.variables, 0, 0, db1.ret),
               db1.ret, func_info.calls_made),
     info |-> func_info]

\* lines 401-412: None when insert_function gave no id (db1.ret), else the inserts
\* of the function's parameters, variables and calls, and the FunctionInfo
AfterInsertFunction(db1, func_info) ==
    IF db1.ret = 0
    THEN [db |-> db1, info |-> NoInfo]
    ELSE [db |-> InsertCalls(
                    InsertVariables(
                       InsertParameters(db1, db1.ret, func_info.parameters),
                       func_info.variables, 0, 0, db1.ret),
                    db1.ret, func_info.calls_made),
          info |-> func_info]

\* lines 385-386: the local variables but those named as an extracted parameter
LocalsWithoutParams(local_variables, parameters) ==
    SelectSeq(local_variables,
              LAMBDA v : v.name \notin {parameters[i].name : i \in 1..Len(parameters)})

\* Returns [db, info]: info is the FunctionInfo, or NoInfo for a return of None.
visit_function_definition(db, node, file_id, class_id, is_arrow, language, file_extension, order) ==
    LET arrow_node == IF is_arrow THEN child_by_field_name(node, "value") ELSE node
        name_node == child_by_field_name(node, "name")
        body_node == child_by_field_name(arrow_node, "body")
    IN
    IF is_arrow /\ (~IsNode(arrow_node) \/ arrow_node.type # "arrow_function")
    THEN [db |-> db, info |-> NoInfo]
    ELSE IF Discarded(name_node, is_arrow)
    THEN [db |-> db, info |-> NoInfo]
    ELSE
    Let(extract_parameters(arrow_node, language, file_extension), LAMBDA parameters :
    Let([none |-> FALSE,
         name |-> IF IsNode(name_node) THEN name_node.text ELSE "anonymous",
         start_line |-> node.line,
         end_line |-> end_line(node, body_node),
         parameters |-> parameters,
         docstring |-> DocstringOf(body_node, language),
         body |-> IF IsNode(body_node) THEN body_node.text ELSE NONE,
         variables |->
            IF IsNode(body_node)
            THEN LocalsWithoutParams(
                    extract_variables(body_node, language, FALSE, FALSE, TRUE), parameters)
            ELSE <<>>,
         calls_made |->
            IF IsNode(body_node)
            THEN extract_function_calls(body_node, language, order)
            ELSE <<>>], LAMBDA func_info :
    Let(insert_function(Extracted(db, func_info.name), file_id, class_id, func_info),
        LAMBDA db1 : AfterInsertFunction(db1, func_info))))

\* every definition below the class body, at any depth
MethodNodes_at_any_depth(body_node) == Descendants(body_node)

\* line 448: the nodes the method loop runs over, the children of the class body
MethodNodes(body_node) == body_node.children

\* the loop over the class body's children (lines 448-452): [db, methods]
RECURSIVE VisitMethods(_, _, _, _, _, _, _, _)
VisitMethods(db, kids, i, file_id, db_class_id, language, file_extension, order) ==
    IF i > Len(kids) THEN [db |-> db, methods |-> <<>>]
    ELSE IF kids[i].type = (IF language = "python" THEN "function_definition"
                            ELSE "method_definition")
    THEN Let(visit_function_definition(db, kids[i], file_id, db_class_id, FALSE,
                                       language, file_extension, order), LAMBDA m :
         Let(VisitMethods(m.db, kids, i + 1, file_id, db_class_id,
                          language, file_extension, order), LAMBDA rest :
             [db |-> rest.db,
              methods |-> (IF m.info.none THEN <<>> ELSE <<m.info>>) \o rest.methods]))
    ELSE VisitMethods(db, kids, i + 1, file_id, db_class_id,
                      language, file_extension, order)

\* Returns [db, info]: info is the ClassInfo, or NoInfo for a return of None.
visit_class_definition(db, node, file_id, language, file_extension, order) ==
    LET name_node == child_by_field_name(node, "name")
        body_node == child_by_field_name(node, "body")
    IN
    IF ~IsNode(name_node) THEN [db |-> db, info |-> NoInfo]
    ELSE
    Let([none |-> FALSE, name |-> name_node.text, start_line |-> name_node.line,
         end_line |-> IF IsNode(body_node) THEN body_node.endl ELSE name_node.endl,
         docstring |-> DocstringOf(body_node, language),
         body |-> IF IsNode(body_node) THEN body_node.text ELSE NONE,
         attributes |->
            IF IsNode(body_node)
            THEN extract_variables(body_node, language, FALSE, TRUE, FALSE)
            ELSE <<>>,
         methods |-> <<>>], LAMBDA current_class_info :
    Let(insert_class(Extracted(db, current_class_info.name), file_id, current_class_info),
        LAMBDA db1 :
        IF db1.ret = 0
        THEN [db |-> db1, info |-> NoInfo]
        ELSE
        Let(InsertVariables(db1, current_class_info.attributes, 0, db1.ret, 0), LAMBDA db2 :
        Let(IF IsNode(body_node)
            THEN VisitMethods(db2, MethodNodes(body_node), 1, file_id, db1.ret,
                              language, file_extension, order)
            ELSE [db |-> db2, methods |-> <<>>], LAMBDA ms :
            [db |-> ms.db,
             info |-> [current_class_info EXCEPT !.methods = ms.methods]]))))

(***************************************************************************)
(* CodeAnalyzer.analyze_code                                               *)
(***************************************************************************)
\* hashlib.md5(...).hexdigest(): distinct sources of the corpus have distinct digests
md5(code_string) == <<"md5", code_string>>

NoResult == [none |-> TRUE]

\* lines 500-506: the arrow function of a lexical_declaration (one declarator
\* per declaration in this grammar)
VisitArrows(db, decls, file_id, language, file_extension, order) ==
    IF /\ decls # <<>>
       /\ decls[1].type = "variable_declarator"
       /\ IsNode(child_by_field_name(decls[1], "value"))
       /\ child_by_field_name(decls[1], "value").type = "arrow_function"
    THEN visit_function_definition(db, decls[1], file_id, 0, TRUE,
                                   language, file_extension, order)
    ELSE [db |-> db, info |-> NoInfo]

\* what a child of the root is visited as (the if / elif chain of lines 489-511)
TopLevelKind(node, language) ==
    CASE node.type = "ERROR" -> "skip"
      [] node.type # "ERROR"
         /\ \/ (language = "python" /\ node.type = "function_definition")
            \/ (language = "javascript" /\ node.type = "function_declaration") -> "function"
      [] node.type # "ERROR"
         /\ language = "javascript" /\ node.type = "lexical_declaration" -> "arrows"
      [] node.type # "ERROR"
         /\ \/ (language = "python" /\ node.type = "class_definition")
            \/ (language = "javascript" /\ node.type = "class_declaration") -> "class"
      [] OTHER -> "skip"

RECURSIVE VisitTopLevel(_, _, _, _, _, _, _)
\* the loop with a break in place of the continue of the ERROR branch (line 493)
VisitTopLevel_break_at_error(db, kids, i, file_id, language, file_extension, order) ==
    IF i > Len(kids) \/ kids[i].type = "ERROR"
    THEN [db |-> db, functions |-> <<>>, classes |-> <<>>]
    ELSE
    Let(TopLevelKind(kids[i], language), LAMBDA k :
    Let(CASE k = "function" ->
                visit_function_definition(db, kids[i], file_id, 0, FALSE,
                                          language, file_extension, order)
          [] k = "arrows" ->
                VisitArrows(db, named_children(kids[i]), file_id,
                            language, file_extension, order)
          [] k = "class" ->
                visit_class_definition(db, kids[i], file_id,
                                       language, file_extension, order)
          [] OTHER -> [db |-> db, info |-> NoInfo], LAMBDA v :
    Let(VisitTopLevel(v.db, kids, i + 1, file_id, language, file_extension, order),
        LAMBDA rest :
        [db |-> rest.db,
         functions |-> (IF k \in {"function", "arrows"} /\ ~v.info.none
                        THEN <<v.info>> ELSE <<>>) \o rest.functions,
         classes |-> (IF k = "class" /\ ~v.info.none
                      THEN <<v.info>> ELSE <<>>) \o rest.classes])))

\* the loop over the root's children (lines 485-513): [db, functions, classes]
VisitTopLevel(db, kids, i, file_id, language, file_extension, order) ==
    IF i > Len(kids) THEN [db |-> db, functions |-> <<>>, classes |-> <<>>]
    ELSE
    Let(TopLevelKind(kids[i], language), LAMBDA k :
    Let(CASE k = "function" ->
                visit_function_definition(db, kids[i], file_id, 0, FALSE,
                                          language, file_extension, order)
          [] k = "arrows" ->
                VisitArrows(db, named_children(kids[i]), file_id,
                            language, file_extension, order)
          [] k = "class" ->
                visit_class_definition(db, kids[i], file_id,
                                       language, file_extension, order)
          [] OTHER -> [db |-> db, info |-> NoInfo], LAMBDA v :
    Let(VisitTopLevel(v.db, kids, i + 1, file_id, language, file_extension, order),
        LAMBDA rest :
        [db |-> rest.db,
         functions |-> (IF k \in {"function", "arrows"} /\ ~v.info.none
                        THEN <<v.info>> ELSE <<>>) \o rest.functions,
         classes |-> (IF k = "class" /\ ~v.info.none
                      THEN <<v.info>> ELSE <<>>) \o rest.classes])))

\* every function and class definition of the tree, at any depth
TopLevelNodes_at_any_depth(root_node) ==
    SelectSeq(Descendants(root_node),
              LAMBDA c : c.type \in {"function_definition", "function_declaration",
                                     "class_definition", "class_declaration"})

\* lines 485-488 and 512: the cursor walks the children of the root, and never
\* goes down into one
TopLevelNodes(root_node) == root_node.children

\* line 473: no record for the path, or a record with another checksum
\* (db1 is the gateway after get_file_by_path; db1.ret is the record's id, 0 for none)
NeedsInsert_always(db1, checksum) == TRUE
NeedsInsert(db1, checksum) ==
    db1.ret = 0 \/ db1.files[db1.ret].checksum # checksum

\* Returns [db, result]; result is the AnalysisResults, or NoResult for None.
analyze_code(db, code_string, file_path, last_modified, language, file_extension, order) ==
    Let(Parse(code_string, language, file_extension), LAMBDA root_node :
    Let(md5(code_string), LAMBDA checksum :
    Let(get_file_by_path(db, file_path), LAMBDA db1 :
    \* lines 465-479: db2.ret is file_id
    Let(IF NeedsInsert(db1, checksum)
        THEN insert_file(db1, file_path, last_modified, checksum, code_string)
        ELSE db1, LAMBDA db2 :
        IF db2.ret = 0
        THEN [db |-> db2, result |-> NoResult]
        ELSE
        Let(extract_variables(root_node, language, TRUE, FALSE, FALSE),
            LAMBDA current_scope_variables :
        Let(Extracted(db2, "<module>"), LAMBDA db3 :
        Let(VisitTopLevel(InsertVariables(db3, current_scope_variables, db2.ret, 0, 0),
                          TopLevelNodes(root_node), 1, db2.ret,
                          language, file_extension, order), LAMBDA top :
            [db |-> top.db,
             result |-> [none |-> FALSE, file_path |-> file_path,
                         module_docstring |-> NONE,
                         top_level_variables |-> current_scope_variables,
                         functions |-> top.functions, classes |-> top.classes]])))))))

(***************************************************************************)
(* main.py: get_file_extension_and_language, analyze_file                  *)
(***************************************************************************)
Path(stem, ext) == [stem |-> stem, ext |-> ext]

\* (language, file_extension) of a path; language None for an unsupported one
get_file_extension_and_language(file_path) ==
    CASE file_path.ext = ".py" -> [language |-> "python", file_extension |-> "py"]
      [] file_path.ext \in {".ts", ".tsx"} -> [language |-> "javascript", file_extension |-> "ts"]
      [] file_path.ext \in {".js", ".jsx"} -> [language |-> "javascript", file_extension |-> "js"]
      [] OTHER -> [language |-> NONE, file_extension |-> ""]

(***************************************************************************)
(* Inputs                                                                  *)
(***************************************************************************)
\* the minimal module: one top-level variable, one function with a typed parameter
\* with a default, one class with one attribute and one method calling the function
Minimal ==
    << SAssign("x"),
       SDef("f", <<Param("typed_default", "p")>>, <<SAssign("y")>>),
       SClass("C", << SAssign("a"),
                      SDef("m", <<Param("bare", "self")>>, <<SCall("", "f", <<>>)>>) >>) >>

\* the same module after an edit
Edited ==
    << SAssign("x"),
       SDef("f", <<Param("typed_default", "p")>>, <<SAssign("y")>>),
       SClass("C", << SAssign("a"),
                      SDef("m", <<Param("bare", "self")>>,
                           << SCall("", "f", <<>>), SCall("self", "g", <<>>) >>) >>),
       SAssign("z") >>

Corpus == {Minimal, Edited}

Paths == {Path("a", ".py"), Path("b", ".ts")}

\* iteration orders of a set of names a call can yield: the called names, and the
\* receiver and the whole callee text, which a callee name must never be
Callees == {"f", "g"}
CalleeOrder == <<"f", "g", "r", "r.g", "self", "self.g">>
Orders == {CalleeOrder, [i \in 1..Len(CalleeOrder) |-> CalleeOrder[Len(CalleeOrder) + 1 - i]]}

\* the inserts a store may reject during one run
Rejects == {{}, {"insert_file"}, {"insert_class"}, {"insert_function"}}

\* statement trees of exactly n nodes over a small alphabet
VarLeaves == {SAssign("x"), SAssign("y")}
VarCompound(body) == {SCtl("if", body), SDef("g", <<>>, body), SClass("K", body)}

RECURSIVE VarTrees(_), VarForests(_)
VarTrees(n) ==
    IF n = 1 THEN VarLeaves \cup VarCompound(<<>>)
    ELSE UNION {VarCompound(body) : body \in VarForests(n - 1)}
VarForests(n) ==
    IF n = 0 THEN {<<>>}
    ELSE UNION { {<<t>> \o rest : t \in VarTrees(k), rest \in VarForests(n - k)} : k \in 1..n }

Generated == UNION {VarForests(n) : n \in 0..MaxNodes}

ExtractPaths == {Path("a", ".py"), Path("b", ".ts"), Path("c", ".js")}

\* signatures of up to MaxParams parameters of every shape, named by position
ParamKinds == {"bare", "default", "typed", "typed_default", "star", "dstar"}
ParamNames == <<"a", "b", "c", "d", "e">>
ParamLists(n) == { [i \in 1..n |-> Param(ks[i], ParamNames[i])] : ks \in [1..n -> ParamKinds] }

\* a function, an arrow function or a method with the signature, whose body
\* assigns to the name of the first parameter
ParamSources ==
    UNION { { <<SDef("f", ps, <<SAssign("a")>>)>>, <<SArrow("f", ps, <<SAssign("a")>>)>>,
              <<SClass("K", <<SDef("f", ps, <<SAssign("a")>>)>>)>> } :
            ps \in UNION {ParamLists(n) : n \in 0..MaxParams} }

\* const f = (..) => {..} and function () {..} are source text of the JavaScript
\* dialects only
RECURSIVE HasArrow(_)
HasArrow(src) ==
    \E i \in 1..Len(src) :
        src[i].k \in {"arrow", "funcexpr"} \/ HasArrow(src[i].body) \/ HasArrow(src[i].args)

Fits(code, file_path) == HasArrow(code) => file_path.ext # ".py"

\* bodies of n nodes that call f and r.g: directly, in arguments, in control
\* blocks and in nested function, class, lambda and function expression definitions
RECURSIVE CallExprs(_), CallTrees(_), CallForests(_)
CallExprs(n) ==
    IF n = 1 THEN {SCall("", "f", <<>>), SCall("r", "g", <<>>)}
    ELSE {SCall("", "g", <<e>>) : e \in CallExprs(n - 1)}
         \cup {SLambda(e) : e \in CallExprs(n - 1)}
         \cup (IF n = 2 THEN {}
               ELSE {SCall("", "g", <<SFunc(e)>>) : e \in CallExprs(n - 2)})
CallTrees(n) ==
    IF n = 1 THEN CallExprs(1)
    ELSE CallExprs(n)
         \cup UNION { {SCtl("if", body), SCtl("for", body), SCtl("except", body),
                       SDef("h", <<>>, body)} : body \in CallForests(n - 1) }
         \cup (IF n = 2 THEN {}
               ELSE {SClass("K", <<SDef("m", <<>>, body)>>) : body \in CallForests(n - 2)})
CallForests(n) ==
    IF n = 0 THEN {<<>>}
    ELSE UNION { {<<t>> \o rest : t \in CallTrees(k), rest \in CallForests(n - k)} : k \in 1..n }

\* modules of up to MaxSiblings top-level statements: named functions and classes,
\* unparseable fragments, and definitions whose name node is absent
Siblings ==
    { SDef("f", <<>>, <<>>), SDef("g", <<>>, <<>>),
      SClass("K", <<SDef("m", <<>>, <<>>)>>),
      SErr,
      SDef("", <<Param("bare", "p")>>, <<SAssign("y")>>),
      SClass("", <<SAssign("a")>>),
      SClass("C", <<SDef("", <<>>, <<>>), SDef("m", <<>>, <<>>)>>) }

RECURSIVE SiblingLists(_)
SiblingLists(n) ==
    IF n = 0 THEN {<<>>}
    ELSE {<<t>> \o rest : t \in Siblings, rest \in SiblingLists(n - 1)}

SiblingSources == UNION {SiblingLists(n) : n \in 1..MaxSiblings}

\* a function, an arrow function or a method with the body
CallSources ==
    UNION { { <<SDef("f", <<>>, body)>>, <<SArrow("f", <<>>, body)>>,
              <<SClass("C", <<SDef("f", <<>>, body)>>)>> } :
            body \in UNION {CallForests(n) : n \in 0..MaxCallNodes} }

\* modules of up to MaxScopeNodes statements that nest functions and classes in
\* each other: assignments to a plain name (the name of the functions' parameter)
\* and to an attribute of self, at the top level and at every depth below it
ScopeLeaves == {SAssign("a"), SAttrAssign("v")}
ScopeCompound(body) == {SDef("f", <<Param("bare", "a")>>, body), SClass("C", body)}

RECURSIVE ScopeTrees(_), ScopeForests(_)
ScopeTrees(n) ==
    IF n = 1 THEN ScopeLeaves \cup ScopeCompound(<<>>)
    ELSE UNION {ScopeCompound(body) : body \in ScopeForests(n - 1)}
ScopeForests(n) ==
    IF n = 0 THEN {<<>>}
    ELSE UNION { {<<t>> \o rest : t \in ScopeTrees(k), rest \in ScopeForests(n - k)} : k \in 1..n }

ScopeSources == UNION {ScopeForests(n) : n \in 0..MaxScopeNodes}

\* a class body of the JavaScript dialects holds fields and methods only
RECURSIVE ClassBodiesHoldMembers(_)
ClassBodiesHoldMembers(src) ==
    \A i \in 1..Len(src) :
        /\ src[i].k = "class" =>
              \A j \in 1..Len(src[i].body) : src[i].body[j].k \in {"assign", "def"}
        /\ ClassBodiesHoldMembers(src[i].body)

ScopeFits(code, file_path) == file_path.ext # ".py" => ClassBodiesHoldMembers(code)

(***************************************************************************)
(* State                                                                   *)
(***************************************************************************)
VARIABLES
    kind,            \* the gateway in use: "sqlite" or "mock"
    files, classes, functions, parameters, variables, function_calls,  \* its tables
    log,             \* the gateway calls and extraction steps of the last run, in order
    result,          \* what the last analyze_code returned
    call,            \* the last run's inputs
    pre,             \* the tables as they were before the last run
    runs             \* number of runs so far; also the clock of datetime.now()

tables == <<files, classes, functions, parameters, variables, function_calls>>
vars == <<kind, files, classes, functions, parameters, variables, function_calls,
          log, result, call, pre, runs>>

NoCall == [none |-> TRUE]

Tables == [files |-> files, classes |-> classes, functions |-> functions,
           parameters |-> parameters, variables |-> variables,
           function_calls |-> function_calls]

Init ==
    /\ kind \in {"sqlite", "mock"}
    /\ files = <<>> /\ classes = <<>> /\ functions = <<>>
    /\ parameters = <<>> /\ variables = <<>> /\ function_calls = <<>>
    /\ log = <<>>
    /\ result = NoResult
    /\ call = NoCall
    /\ pre = Tables
    /\ runs = 0

\* main.analyze_file on a file of a supported language: a fresh CodeAnalyzer for the
\* file's language and dialect, then analyze_code on the file's text
AnalyzeFile(file_path, code, reject, order) ==
    LET le == get_file_extension_and_language(file_path)
        out == analyze_code([kind |-> kind, reject |-> reject, files |-> files,
                             classes |-> classes, functions |-> functions,
                             parameters |-> parameters, variables |-> variables,
                             function_calls |-> function_calls, log |-> <<>>, ret |-> 0],
                            code, file_path, runs + 1, le.language, le.file_extension, order)
    IN  /\ le.language # NONE
        /\ files' = out.db.files
        /\ classes' = out.db.classes
        /\ functions' = out.db.functions
        /\ parameters' = out.db.parameters
        /\ variables' = out.db.variables
        /\ function_calls' = out.db.function_calls
        /\ log' = out.db.log
        /\ result' = out.result
        /\ call' = [none |-> FALSE, file_path |-> file_path, code |-> code,
                    reject |-> reject, order |-> order]
        /\ pre' = Tables
        /\ runs' = runs + 1
        /\ UNCHANGED kind

\* any sequence of runs over the corpus
Analyze ==
    /\ runs < MaxRuns
    /\ \E file_path \in Paths, code \in Corpus, reject \in Rejects, order \in Orders :
          AnalyzeFile(file_path, code, reject, order)

Next == Analyze

Spec == Init /\ [][Next]_vars

\* one run on an empty store over every generated source
AnalyzeGenerated ==
    /\ runs = 0
    /\ \E file_path \in ExtractPaths, code \in Generated, order \in Orders :
          AnalyzeFile(file_path, code, {}, order)

NextExtract == AnalyzeGenerated

SpecExtract == Init /\ [][NextExtract]_vars

\* one run on an empty store over every generated signature
AnalyzeParams ==
    /\ runs = 0
    /\ \E file_path \in ExtractPaths, code \in ParamSources :
          /\ Fits(code, file_path)
          /\ AnalyzeFile(file_path, code, {}, <<"f", "g">>)

NextParams == AnalyzeParams

\* one run on an empty store over every generated body
AnalyzeCalls ==
    /\ runs = 0
    /\ \E file_path \in ExtractPaths, code \in CallSources, order \in Orders :
          /\ Fits(code, file_path)
          /\ AnalyzeFile(file_path, code, {}, order)

NextCalls == AnalyzeCalls

\* one run on an empty store over every generated module
AnalyzeSiblings ==
    /\ runs = 0
    /\ \E file_path \in ExtractPaths, code \in SiblingSources :
          AnalyzeFile(file_path, code, {}, CalleeOrder)

NextSiblings == AnalyzeSiblings

SpecSiblings == Init /\ [][NextSiblings]_vars

SpecCalls == Init /\ [][NextCalls]_vars

\* one run on an empty store over every generated nesting, the store rejecting
\* the inserts of one kind or none
AnalyzeScopes ==
    /\ runs = 0
    /\ \E file_path \in ExtractPaths, code \in ScopeSources, reject \in Rejects :
          /\ ScopeFits(code, file_path)
          /\ AnalyzeFile(file_path, code, reject, CalleeOrder)

NextScopes == AnalyzeScopes

SpecScopes == Init /\ [][NextScopes]_vars

SpecParams == Init /\ [][NextParams]_vars

(***************************************************************************)
(* Vocabulary of the properties                                            *)
(***************************************************************************)
Ran == ~call.none

\* ids of the records the store held for the run's path before the run
PreIds == {i \in 1..Len(pre.files) : pre.files[i].path = call.file_path}

\* the run was a cache hit: a record of the path with the checksum of the content
HitBefore == \E i \in PreIds : pre.files[i].checksum = md5(call.code)

\* the run found a record of the path with another checksum
ChangedBefore == \E i \in PreIds : pre.files[i].checksum # md5(call.code)

\* the store rejected nothing in the run (no sqlite3.Error but those the code causes)
Healthy == call.reject = {}

RowsUnchanged ==
    /\ classes = pre.classes
    /\ functions = pre.functions
    /\ parameters = pre.parameters
    /\ variables = pre.variables
    /\ function_calls = pre.function_calls

\* log entries that carry a File id
UsesFileId(e) ==
    \/ e.op \in {"insert_class", "insert_function"}
    \/ (e.op = "insert_variable" /\ e.class_id = 0 /\ e.function_id = 0)

NoDupNames(vs) == \A i, j \in 1..Len(vs) : vs[i].name = vs[j].name => i = j

(***************************************************************************)
(* Claims                                                                  *)
(***************************************************************************)
\* C1: on a cache hit (the stored checksum of the path equals the hash of the
\* content) extraction is skipped: the result names the file and holds no
\* top-level Variables, no Functions and no Classes.
C1_CacheHitSkipsExtraction ==
    (Ran /\ HitBefore /\ Healthy) =>
        /\ ~result.none
        /\ result.file_path = call.file_path
        /\ result.top_level_variables = <<>>
        /\ result.functions = <<>>
        /\ result.classes = <<>>

\* C2: re-analysing an unchanged file issues no insert: the Class, Function,
\* Parameter, Variable and FunctionCall rows after the run are those before it.
C2_CacheHitInsertsNothing ==
    (Ran /\ HitBefore /\ Healthy) => RowsUnchanged

C4_ChangedContentIsReanalysed ==
    (Ran /\ ChangedBefore /\ Healthy) =>
        /\ ~result.none
        /\ \E i \in 1..Len(log) : log[i].op = "insert_variable"

\* C5: once a run on content C has completed, the stored checksum of the path
\* is hash(C).
C5_StoredChecksumIsOfLastContent ==
    (Ran /\ Healthy) =>
        \E i \in 1..Len(files) :
            files[i].path = call.file_path /\ files[i].checksum = md5(call.code)

\* C6: analyze_code returns a result object, never None, whatever the content and
\* whatever the store held for the path.
C6_AlwaysAResult ==
    (Ran /\ Healthy) => ~result.none

\* C7: the store holds at most one File record per path, and a run that returns
\* a result used the id of the record of its path in every insert carrying a File id.
C7_OneFileRecordPerPath ==
    /\ \A i, j \in 1..Len(files) : files[i].path = files[j].path => i = j
    /\ (Ran /\ ~result.none) =>
          \E i \in 1..Len(files) :
              /\ files[i].path = call.file_path
              /\ \A k \in 1..Len(log) : UsesFileId(log[k]) => log[k].file_id = files[i].id

\* C7 witness: a path analysed again with changed content, the run returning a result
C7_Witness ==
    /\ Ran /\ ChangedBefore /\ ~result.none
    /\ \E k \in 1..Len(log) : UsesFileId(log[k])

\* the syntax tree of the last run's content
RunTree ==
    Parse(call.code, get_file_extension_and_language(call.file_path).language,
          get_file_extension_and_language(call.file_path).file_extension)

ScopeTypes == {"function_definition", "class_definition", "lambda",
               "function_declaration", "class_declaration", "method_definition",
               "arrow_function"}

\* line spans of the function, class and lambda definitions nested in a node
RECURSIVE InnerScopeSpans(_)
InnerScopeSpans(node) ==
    UNION { (IF node.children[i].type \in ScopeTypes
             THEN {<<node.children[i].line, node.children[i].endl>>} ELSE {})
            \cup InnerScopeSpans(node.children[i]) : i \in 1..Len(node.children) }

Outside(v, spans) == \A sp \in spans : ~(sp[1] <= v.defined_at_line /\ v.defined_at_line <= sp[2])

\* the body of the top-level definition that starts on a line
TopLevelBody(line) ==
    LET defs == SelectSeq(RunTree.children, LAMBDA c : c.line = line)
    IN  IF defs = <<>> THEN NoNode ELSE child_by_field_name(defs[1], "body")

\* C8: no two Variables of one scope's list have the same name, also when the
\* redefinition sits in a nested block of the scope; stated for the module scope.
C8_ScopeVariablesAreDeduplicated ==
    (Ran /\ ~result.none) => NoDupNames(result.top_level_variables)

\* C9: a variable assigned inside a method body never appears among the
\* attributes of the method's class.
C9_MethodVariablesAreNotClassAttributes ==
    (Ran /\ ~result.none) =>
        \A c \in 1..Len(result.classes) :
            \A a \in 1..Len(result.classes[c].attributes) :
                Outside(result.classes[c].attributes[a],
                        { <<result.classes[c].methods[m].start_line,
                            result.classes[c].methods[m].end_line>> :
                          m \in 1..Len(result.classes[c].methods) })

\* C10: a variable assigned only inside a nested function, class or lambda never
\* appears in the top-level variables of the module nor in the local variables
\* of the enclosing function.
C10_NestedScopesDoNotLeak ==
    (Ran /\ ~result.none) =>
        /\ \A v \in 1..Len(result.top_level_variables) :
              Outside(result.top_level_variables[v], InnerScopeSpans(RunTree))
        /\ \A f \in 1..Len(result.functions) :
              \A v \in 1..Len(result.functions[f].variables) :
                  Outside(result.functions[f].variables[v],
                          InnerScopeSpans(TopLevelBody(result.functions[f].start_line)))

\* the Functions of the result: the top-level ones, then the methods of each class
ResultFunctions ==
    result.functions
    \o Flatten([c \in 1..Len(result.classes) |-> result.classes[c].methods])

NamesOf(es) == [i \in 1..Len(es) |-> es[i].name]

\* the names a list of log entries of one operation carries, in the order of the calls
LoggedNames(op) == NamesOf(SelectSeq(log, LAMBDA e : e.op = op))

\* the definition a generated single-definition source holds
TheDef == IF call.code[1].k = "class" THEN call.code[1].body[1] ELSE call.code[1]

\* C12: the Parameters of a Function are in source declaration order, in the list
\* and in the insert_parameter calls; a skipped child of the parameter list leaves
\* the others in their order, and a plain identifier is never skipped.
C12_ParametersInDeclarationOrder ==
    (Ran /\ ~result.none /\ Len(ResultFunctions) = 1) =>
        LET declared == NamesOf(TheDef.params)
            names == NamesOf(ResultFunctions[1].parameters)
        IN  /\ names = SelectSeq(declared, LAMBDA n : n \in Range(names))
            /\ \A i \in 1..Len(TheDef.params) :
                  TheDef.params[i].k = "bare" => declared[i] \in Range(names)
            /\ LoggedNames("insert_parameter") = names

\* a signature with a skipped parameter between two kept ones
C12_Witness ==
    /\ Ran /\ ~result.none /\ Len(ResultFunctions) = 1
    /\ Len(TheDef.params) = 3
    /\ NamesOf(ResultFunctions[1].parameters) = <<"a", "c">>
    /\ LoggedNames("insert_parameter") = <<"a", "c">>

\* C11: every Function of a result ends on or after the line it starts on.
C11_FunctionEndsAfterItStarts ==
    (Ran /\ ~result.none) =>
        \A i \in 1..Len(ResultFunctions) :
            ResultFunctions[i].end_line >= ResultFunctions[i].start_line

\* an arrow function and a method, each with a body of several lines
C11_Witness ==
    /\ Ran /\ ~result.none /\ Len(ResultFunctions) = 1
    /\ call.code[1].k \in {"arrow", "class"}
    /\ ResultFunctions[1].end_line > ResultFunctions[1].start_line + 1

\* C13: a call through a receiver records the trailing name only: neither the
\* receiver nor the whole callee text is ever a callee name.
C13_QualifiedCallRecordsTrailingName ==
    (Ran /\ ~result.none) =>
        \A i \in 1..Len(ResultFunctions) :
            /\ Range(ResultFunctions[i].calls_made) \subseteq Callees
            /\ (\E k \in 1..Len(TheDef.body) : TheDef.body[k] = SCall("r", "g", <<>>))
                  => "g" \in Range(ResultFunctions[i].calls_made)

C13_Witness ==
    /\ Ran /\ ~result.none /\ Len(ResultFunctions) = 1
    /\ TheDef.body = <<SCall("r", "g", <<>>)>>
    /\ ResultFunctions[1].calls_made = <<"g">>

\* C14: calls_made holds a callee name at most once, and a run issues at most one
\* insert_function_call per function and callee name.
C14_CalleesAreDeduplicated ==
    (Ran /\ ~result.none) =>
        /\ \A i \in 1..Len(ResultFunctions) :
              \A j, k \in 1..Len(ResultFunctions[i].calls_made) :
                  ResultFunctions[i].calls_made[j] = ResultFunctions[i].calls_made[k] => j = k
        /\ \A j, k \in 1..Len(log) :
              (/\ log[j].op = "insert_function_call" /\ log[k].op = "insert_function_call"
               /\ log[j].function_id = log[k].function_id
               /\ log[j].name = log[k].name) => j = k

\* f called twice, at two nesting depths
C14_Witness ==
    /\ Ran /\ ~result.none /\ Len(ResultFunctions) = 1
    /\ TheDef.body = <<SCall("", "f", <<>>), SCtl("if", <<SCall("", "f", <<>>)>>)>>
    /\ ResultFunctions[1].calls_made = <<"f">>
    /\ LoggedNames("insert_function_call") = <<"f">>

\* the names called in a statement list outside its nested function, class and
\* lambda definitions: in the statements, their arguments and their control blocks
RECURSIVE CallsWithin(_)
CallsWithin(ss) ==
    UNION { CASE ss[i].k = "call" -> {ss[i].name} \cup CallsWithin(ss[i].args)
              [] ss[i].k = "assign" -> CallsWithin(ss[i].args)
              [] ss[i].k \in {"if", "for", "try", "except"} -> CallsWithin(ss[i].body)
              [] OTHER -> {}
            : i \in 1..Len(ss) }

\* C15: the calls recorded for a function are exactly the calls of its body that
\* lie outside nested function, class and lambda definitions, those in control
\* blocks and in call arguments included.
C15_CallsOfInnermostFunction ==
    (Ran /\ ~result.none /\ Len(ResultFunctions) = 1) =>
        Range(ResultFunctions[1].calls_made) = CallsWithin(TheDef.body)

\* the names of the named top-level definitions of a kind, in source order
TopLevelNames(k) ==
    NamesOf(SelectSeq(call.code, LAMBDA st : st.k = k /\ st.name # ""))

\* C16: an ERROR node among the top-level definitions is skipped alone: the run
\* returns a result with every named top-level function and class, in source order.
C16_ErrorNodeIsIsolated ==
    (Ran /\ \E i \in 1..Len(call.code) : call.code[i] = SErr) =>
        /\ ~result.none
        /\ NamesOf(result.functions) = TopLevelNames("def")
        /\ NamesOf(result.classes) = TopLevelNames("class")

\* an unparseable fragment between a function and a class
C16_Witness ==
    /\ Ran /\ ~result.none
    /\ Len(call.code) = 3 /\ call.code[2] = SErr
    /\ NamesOf(result.functions) = <<"f">>
    /\ NamesOf(result.classes) = <<"K">>

\* a definition whose name node is absent, at the top level or in a class body
Nameless(st) == st.k \in {"def", "class"} /\ st.name = ""

\* C20: a function, method or class definition without a name node is discarded
\* silently: the run returns a result, no insert carries the definition, its
\* parameters, variables or attributes, the result holds no such entity, and the
\* named siblings are all in the result.
C20_NamelessDefinitionIsDiscarded ==
    (Ran /\ \E i \in 1..Len(call.code) :
                Nameless(call.code[i])
                \/ \E j \in 1..Len(call.code[i].body) : Nameless(call.code[i].body[j])) =>
        /\ ~result.none
        /\ \A i \in 1..Len(log) : log[i].name \notin {"", "anonymous", NONE, "p", "y", "a"}
        /\ NamesOf(result.functions) = TopLevelNames("def")
        /\ NamesOf(result.classes) = TopLevelNames("class")
        /\ \A c \in 1..Len(result.classes) : NamesOf(result.classes[c].methods) = <<"m">>

\* a nameless function before a named one, which is in the result
C20_Witness ==
    /\ Ran /\ ~result.none
    /\ Len(call.code) = 2 /\ Nameless(call.code[1])
    /\ call.code[1].k = "def"
    /\ NamesOf(result.functions) = <<"f">>
    /\ LoggedNames("insert_function") = <<"f">>

\* an earlier call of the run, of one of the operations, returned the id
ReturnedBefore(i, ops, id) ==
    id # 0 /\ \E j \in 1..(i - 1) : log[j].op \in ops /\ log[j].ret = id

\* C17: every insert of a run carries the id of its parent, which an earlier call
\* of the run returned: the File id for classes, functions and top-level
\* variables, the Class id for methods and attributes, the Function id for
\* parameters, local variables and calls.
C17_ParentBeforeChild ==
    Ran =>
        \A i \in 1..Len(log) :
            /\ log[i].op \in {"insert_class", "insert_function"} =>
                  ReturnedBefore(i, {"get_file_by_path", "insert_file"}, log[i].file_id)
            /\ (log[i].op = "insert_function" /\ log[i].class_id # 0) =>
                  ReturnedBefore(i, {"insert_class"}, log[i].class_id)
            /\ log[i].op \in {"insert_parameter", "insert_function_call"} =>
                  ReturnedBefore(i, {"insert_function"}, log[i].function_id)
            /\ log[i].op = "insert_variable" =>
                  \/ ReturnedBefore(i, {"insert_function"}, log[i].function_id)
                  \/ ReturnedBefore(i, {"insert_class"}, log[i].class_id)
                  \/ ReturnedBefore(i, {"get_file_by_path", "insert_file"}, log[i].file_id)

\* a run that inserts a class, its attribute, its method and the method's call
C17_Witness ==
    /\ Ran /\ ~result.none
    /\ \E i \in 1..Len(log) : log[i].op = "insert_function" /\ log[i].class_id # 0
    /\ \E i \in 1..Len(log) : log[i].op = "insert_variable" /\ log[i].class_id # 0
    /\ \E i \in 1..Len(log) : log[i].op = "insert_variable" /\ log[i].function_id # 0
    /\ \E i \in 1..Len(log) : log[i].op = "insert_parameter"
    /\ \E i \in 1..Len(log) : log[i].op = "insert_function_call"

\* the names of the entities whose insert the store rejected in the run
RejectedNames(op) == {log[i].name : i \in {j \in 1..Len(log) : log[j].op = op /\ log[j].ret = 0}}

\* C18: an entity whose insert_function or insert_class the store rejected gets no
\* row but is in the result of the run.
C18_RejectedEntityStaysInResult ==
    (Ran /\ ~result.none) =>
        /\ RejectedNames("insert_function") # {} => functions = pre.functions
        /\ RejectedNames("insert_class") # {} => classes = pre.classes
        /\ RejectedNames("insert_function") \subseteq Range(NamesOf(ResultFunctions))
        /\ RejectedNames("insert_class") \subseteq Range(NamesOf(result.classes))

\* C18 (amended): an entity whose insert_function or insert_class the store
\* rejected gets no row and is absent from the result of the run.
C18_RejectedEntityIsDropped ==
    (Ran /\ ~result.none) =>
        /\ RejectedNames("insert_function") # {} => functions = pre.functions
        /\ RejectedNames("insert_class") # {} => classes = pre.classes
        /\ RejectedNames("insert_function") \cap Range(NamesOf(ResultFunctions)) = {}
        /\ RejectedNames("insert_class") \cap Range(NamesOf(result.classes)) = {}

\* a run in which the store rejected the function and the method, and kept the class
C18_Witness ==
    /\ Ran /\ ~result.none
    /\ RejectedNames("insert_function") = {"f", "m"}
    /\ NamesOf(result.classes) = <<"C">>
    /\ ResultFunctions = <<>>

\* C19: the minimal module analysed on an empty store gives one top-level Variable
\* x, one Function with one Parameter that has its type and its default, one Class
\* with one attribute and one method, and the method calls the function.
C19_MinimalModuleRoundTrip ==
    (Ran /\ call.code = Minimal /\ pre.files = <<>> /\ Healthy) =>
        /\ ~result.none
        /\ NamesOf(result.top_level_variables) = <<"x">>
        /\ Len(result.functions) = 1
        /\ Len(result.functions[1].parameters) = 1
        /\ result.functions[1].parameters[1].type_annotation # NONE
        /\ result.functions[1].parameters[1].default_value # NONE
        /\ Len(result.classes) = 1
        /\ Len(result.classes[1].attributes) = 1
        /\ Len(result.classes[1].methods) = 1
        /\ result.functions[1].name \in Range(result.classes[1].methods[1].calls_made)

\* the children of a node that are function or method definitions, in source order
DefinitionsIn(node) ==
    SelectSeq(node.children,
              LAMBDA c : c.type \in {"function_definition", "function_declaration",
                                     "method_definition"})

\* the children of a node that are class definitions, in source order
ClassesIn(node) ==
    SelectSeq(node.children, LAMBDA c : c.type \in {"class_definition", "class_declaration"})

StartLinesOf(es) == [i \in 1..Len(es) |-> es[i].start_line]
LinesOf(nodes) == [i \in 1..Len(nodes) |-> nodes[i].line]

\* the insert_function calls of the run for top-level functions (TRUE) or methods
FunctionInserts(top) ==
    SelectSeq(log, LAMBDA e : e.op = "insert_function" /\ ((e.class_id = 0) <=> top))

\* C21: a function definition nested in the body of another function (or of a
\* method) is never promoted: the functions of the result are exactly the function
\* definitions that are children of the module root, in source order, and
\* insert_function is called for a top-level function once per such definition.
C21_NestedFunctionIsNotPromoted ==
    (Ran /\ Healthy /\ ~result.none) =>
        /\ StartLinesOf(result.functions) = LinesOf(DefinitionsIn(RunTree))
        /\ Len(FunctionInserts(TRUE)) = Len(DefinitionsIn(RunTree))
        /\ \A i \in 1..Len(functions) :
              functions[i].class_id = 0 =>
                  functions[i].start_line \in Range(LinesOf(DefinitionsIn(RunTree)))

\* a top-level function whose body holds a function definition: one Function
C21_Witness ==
    /\ Ran /\ Healthy /\ ~result.none
    /\ Len(call.code) = 1 /\ call.code[1].k = "def"
    /\ \E j \in 1..Len(call.code[1].body) : call.code[1].body[j].k = "def"
    /\ Len(result.functions) = 1
    /\ Len(FunctionInserts(TRUE)) = 1

\* C22: the methods of a Class are exactly the function or method definitions
\* that are children of its body, in source order; a definition deeper in the
\* body (in a method, in a nested class) is not a method of it, and only the
\* classes that are children of the module root are Classes of the result.
C22_MethodsAreDirectChildren ==
    (Ran /\ Healthy /\ ~result.none) =>
        /\ StartLinesOf(result.classes) = LinesOf(ClassesIn(RunTree))
        /\ Len(SelectSeq(log, LAMBDA e : e.op = "insert_class")) = Len(ClassesIn(RunTree))
        /\ \A c \in 1..Len(result.classes) :
              StartLinesOf(result.classes[c].methods)
                 = LinesOf(DefinitionsIn(child_by_field_name(ClassesIn(RunTree)[c], "body")))
        /\ Len(FunctionInserts(FALSE))
              = Len(Flatten([c \in 1..Len(result.classes) |-> result.classes[c].methods]))

\* a class whose only method holds a function definition: one method
C22_Witness ==
    /\ Ran /\ Healthy /\ ~result.none
    /\ Len(call.code) = 1 /\ call.code[1].k = "class"
    /\ Len(call.code[1].body) = 1 /\ call.code[1].body[1].k = "def"
    /\ Len(call.code[1].body[1].body) = 1 /\ call.code[1].body[1].body[1].k = "def"
    /\ Len(result.classes) = 1
    /\ Len(result.classes[1].methods) = 1
    /\ Len(FunctionInserts(FALSE)) = 1

\* C23: every call edge persisted through insert_function_call carries a line
\* number that is the line of the call or, failing that, the start line of the
\* calling function: a line of the calling function's span.
C23_CallEdgeCarriesALine ==
    \A i \in 1..Len(function_calls) :
        LET caller == functions[function_calls[i].calling_function_id]
        IN  /\ caller.start_line <= function_calls[i].call_line_number
            /\ function_calls[i].call_line_number <= caller.end_line

\* the markers a variadic parameter's name can be prefixed with
VariadicMarkers == {"*", "**", "...", "args:", "kwargs:"}

\* C24: a variadic parameter is recorded under its name prefixed with a marker,
\* and the marker of a positional-variadic parameter differs from the marker of
\* a keyword-variadic one (Python signatures).
C24_VariadicParameterIsMarked ==
    (Ran /\ ~result.none /\ Len(ResultFunctions) = 1 /\ call.file_path.ext = ".py") =>
        \E positional \in VariadicMarkers :
            \E keyword \in VariadicMarkers \ {positional} :
                \A i \in 1..Len(TheDef.params) :
                    /\ TheDef.params[i].k = "star" =>
                          (positional \o TheDef.params[i].name)
                             \in Range(NamesOf(ResultFunctions[1].parameters))
                    /\ TheDef.params[i].k = "dstar" =>
                          (keyword \o TheDef.params[i].name)
                             \in Range(NamesOf(ResultFunctions[1].parameters))

\* the source of the parameter writes a type, a default
HasType(p) == p.k \in {"typed", "typed_default"} /\ call.file_path.ext # ".js"
HasDefault(p) == p.k \in {"default", "typed_default"}

\* C25: a parameter with a default, with a type, or with both is recorded under
\* its name, with a type annotation exactly when the source writes a type and
\* with the raw source text of the default exactly when the source writes a
\* default (both for a typed parameter with a default).
C25_TypeAndDefaultAreIndependent ==
    (Ran /\ ~result.none /\ Len(ResultFunctions) = 1) =>
        \A i \in 1..Len(TheDef.params) :
            (HasType(TheDef.params[i]) \/ HasDefault(TheDef.params[i])) =>
                \E j \in 1..Len(ResultFunctions[1].parameters) :
                    LET p == ResultFunctions[1].parameters[j]
                    IN  /\ p.name = TheDef.params[i].name
                        /\ (p.type_annotation # NONE) <=> HasType(TheDef.params[i])
                        /\ p.default_value = (IF HasDefault(TheDef.params[i]) THEN "0" ELSE NONE)

\* the methods written in the body of a class statement
MethodsOf(st) == SelectSeq(st.body, LAMBDA m : m.k = "def")

\* C27: variable extraction records an assignment to a simple name, and also an
\* assignment to an attribute of self (this) in a method body, the latter as an
\* attribute of the instance: a Variable of the method or of its class.
C27_SelfAttributeAssignmentIsRecorded ==
    (Ran /\ Healthy /\ ~result.none) =>
        /\ \A i \in 1..Len(call.code) :
              call.code[i].k = "assign" =>
                  call.code[i].name \in Range(NamesOf(result.top_level_variables))
        /\ LET cls == SelectSeq(call.code, LAMBDA st : st.k = "class")
           IN  \A c \in 1..Len(cls) : \A m \in 1..Len(MethodsOf(cls[c])) :
                  \A j \in 1..Len(MethodsOf(cls[c])[m].body) :
                      MethodsOf(cls[c])[m].body[j].k = "attr_assign" =>
                          /\ c <= Len(result.classes)
                          /\ m <= Len(result.classes[c].methods)
                          /\ MethodsOf(cls[c])[m].body[j].name
                                \in Range(NamesOf(result.classes[c].attributes))
                                     \cup Range(NamesOf(result.classes[c].methods[m].variables))

\* C29: no local Variable of a Function has the name of one of the function's
\* parameters: an assignment in the body to a parameter name is neither in the
\* function's variables nor persisted as a variable of the function.
C29_ParameterIsNotALocalVariable ==
    (Ran /\ ~result.none /\ Len(ResultFunctions) = 1) =>
        \A i \in 1..Len(TheDef.params) :
            /\ TheDef.params[i].name \notin Range(NamesOf(ResultFunctions[1].variables))
            /\ \A k \in 1..Len(log) :
                  (log[k].op = "insert_variable" /\ log[k].function_id # 0) =>
                      log[k].name # TheDef.params[i].name

\* the scope flags of a Variable are those of one scope and of no other
FlagsAre(v, global, attribute, local) ==
    /\ v.is_global = global
    /\ v.is_class_attribute = attribute
    /\ v.is_function_local = local

\* C28: every Variable has exactly one of the three scope flags set, the flag of
\* the list that holds it, and every Variable row has exactly one scope
\* identifier, of the kind of its flag: file_id, class_id or function_id.
C28_OneScopePerVariable ==
    (Ran /\ ~result.none) =>
        /\ \A i \in 1..Len(result.top_level_variables) :
              FlagsAre(result.top_level_variables[i], TRUE, FALSE, FALSE)
        /\ \A c \in 1..Len(result.classes) : \A i \in 1..Len(result.classes[c].attributes) :
              FlagsAre(result.classes[c].attributes[i], FALSE, TRUE, FALSE)
        /\ \A f \in 1..Len(ResultFunctions) : \A i \in 1..Len(ResultFunctions[f].variables) :
              FlagsAre(ResultFunctions[f].variables[i], FALSE, FALSE, TRUE)
        /\ \A i \in 1..Len(variables) :
              FlagsAre(variables[i], variables[i].file_id # 0 /\ variables[i].class_id = 0
                                        /\ variables[i].function_id = 0,
                                     variables[i].file_id = 0 /\ variables[i].class_id # 0
                                        /\ variables[i].function_id = 0,
                                     variables[i].file_id = 0 /\ variables[i].class_id = 0
                                        /\ variables[i].function_id # 0)
        /\ \A i \in 1..Len(variables) :
              variables[i].is_global \/ variables[i].is_class_attribute
                 \/ variables[i].is_function_local

\* a run that records a Variable of the module, of a class and of a function
C28_Witness ==
    /\ Ran /\ ~result.none
    /\ result.top_level_variables # <<>>
    /\ \E c \in 1..Len(result.classes) : result.classes[c].attributes # <<>>
    /\ \E f \in 1..Len(ResultFunctions) : ResultFunctions[f].variables # <<>>
    /\ \E i \in 1..Len(variables) : variables[i].file_id # 0
    /\ \E i \in 1..Len(variables) : variables[i].class_id # 0
    /\ \E i \in 1..Len(variables) : variables[i].function_id # 0

\* C30: no orphan rows. When insert_file gives no identifier the run ends at
\* once and no row is written; when insert_class gives none, no attribute and no
\* method of the class is inserted, under the class or under no owner; when
\* insert_function gives none, no parameter, variable or call of the function is.
C30_NoChildOfAFailedParent ==
    Ran =>
        /\ RejectedNames("insert_file") # {} =>
              /\ result.none
              /\ log[Len(log)].op = "insert_file"
              /\ Tables = pre
        /\ RejectedNames("insert_class") # {} =>
              /\ \A i \in 1..Len(log) : log[i].class_id = 0
              /\ Len(FunctionInserts(TRUE)) = Len(DefinitionsIn(RunTree))
        /\ RejectedNames("insert_function") # {} =>
              /\ \A i \in 1..Len(log) :
                    /\ log[i].op \notin {"insert_parameter", "insert_function_call"}
                    /\ log[i].function_id = 0
        /\ \A i \in 1..Len(log) :
              log[i].op = "insert_variable" =>
                  (log[i].file_id # 0 \/ log[i].class_id # 0 \/ log[i].function_id # 0)

\* the store rejects the insert of a function that has a parameter, in a class
\* it accepted
C30_Witness ==
    /\ Ran /\ ~result.none
    /\ RejectedNames("insert_function") = {"f"}
    /\ Len(result.classes) = 1
    /\ result.classes[1].methods = <<>>
    /\ Len(FunctionInserts(FALSE)) = 1

\* the persistence calls of a run, and its extraction steps
PersistOps == {"insert_file", "insert_class", "insert_function", "insert_parameter",
               "insert_variable", "insert_function_call"}
ExtractionSteps == {i \in 1..Len(log) : log[i].op = "extract"}

\* the run's content has an unparseable fragment (PARSE_ERROR_PARTIAL)
ParseErrorPartial == \E i \in 1..Len(call.code) : call.code[i] = SErr

\* C26: a run goes through parsing, extracting and persisting in this order and
\* never back: no extraction step comes after the first persistence call of the
\* run, and a run whose parse is partial still extracts.
C26_ExtractionBeforePersistence ==
    Ran =>
        /\ \A i \in 1..Len(log) : \A j \in ExtractionSteps :
              log[i].op \in PersistOps => j < i
        /\ (ParseErrorPartial /\ ~result.none) => ExtractionSteps # {}

\* C26 (amended): after parsing, a run looks the File up (and inserts it), and
\* then extracts and persists entity by entity, never parsing again: first the
\* module's variables, then each function and class, the extraction step of an
\* entity coming right before the insert of that entity and after the File is
\* known; a run whose parse is partial still extracts the module and every
\* named top-level definition.
C26_ExtractionThenPersistencePerEntity ==
    (Ran /\ ~result.none) =>
        /\ log[1].op = "get_file_by_path"
        /\ \E m \in ExtractionSteps :
              /\ log[m].name = "<module>"
              /\ \A j \in ExtractionSteps : j >= m /\ (log[j].name = "<module>" => j = m)
              /\ \A i \in 1..(m - 1) : log[i].op \in {"get_file_by_path", "insert_file"}
        /\ \A i \in 1..Len(log) :
              log[i].op \in {"insert_function", "insert_class"} =>
                  /\ (i - 1) \in ExtractionSteps
                  /\ log[i - 1].name = log[i].name
        /\ \A j \in ExtractionSteps :
              log[j].name # "<module>" =>
                  /\ j < Len(log)
                  /\ log[j + 1].op \in {"insert_function", "insert_class"}
                  /\ log[j + 1].name = log[j].name
        /\ ParseErrorPartial =>
              \A n \in Range(TopLevelNames("def")) \cup Range(TopLevelNames("class")) :
                  \E j \in ExtractionSteps : log[j].name = n

\* an unparseable fragment before a function: the function is extracted after
\* the File was inserted, and inserted right after
C26_Witness ==
    /\ Ran /\ ~result.none
    /\ Len(call.code) = 2 /\ call.code[1] = SErr
    /\ call.code[2].k = "def" /\ call.code[2].name = "f"
    /\ \E i \in 1..Len(log) : \E j \in ExtractionSteps :
          /\ i < j /\ log[i].op = "insert_file"
          /\ log[j].name = "f" /\ log[j + 1].op = "insert_function"
====
